---- MODULE Spec2Model ----
(***************************************************************************)
(* valideero: schema -> validator resolution (ValidationContext.parse),    *)
(* the validator heap it builds, validate() over that heap, and the        *)
(* ValidationError path/text model.                                        *)
(*                                                                         *)
(* Python objects are heap cells addressed by their allocation index, so   *)
(* object identity ("is") is equality of indices.  A validator's           *)
(* attributes that `parse` deletes (`_schemas`, `_schema`, `_item_schema`, *)
(* `_all`) are modelled by the flag hasSchemas (hasattr) plus the field    *)
(* schemas.                                                                *)
(***************************************************************************)
EXTENDS Integers, Sequences, FiniteSets, TLC

VARIABLES
    heap,               \* every Validator instance created so far, by identity
    named_validators,   \* ValidationContext.named_validators, per context
    validators_factories, \* ValidationContext.validators_factories, per context
    last,               \* the outcome of the last call made by the caller
    err                 \* a ValidationError held by the caller (SpecText)

vars == <<heap, named_validators, validators_factories, last, err>>

(***************************************************************************)
(* Bounds of the model.                                                    *)
(***************************************************************************)
MaxObj == 8         \* validator instances created in all
MaxResolve == 5     \* the same, where the caller parses literals and classes
MaxPath == 3        \* path items added to one ValidationError

(***************************************************************************)
(* Runtime values.  One record shape for all of them:                      *)
(*   t : the Python class, n : int payload, s : str payload,               *)
(*   e : elements (list items, or dict entries [k, v] in insertion order). *)
(***************************************************************************)
Val(t, n, s, e) == [t |-> t, n |-> n, s |-> s, e |-> e]
VNone == Val("NoneType", 0, "", <<>>)
VInt(n) == Val("int", n, "", <<>>)
VStr(s) == Val("str", 0, s, <<>>)
VBool(b) == Val("bool", IF b THEN 1 ELSE 0, "", <<>>)
VList(items) == Val("list", 0, "", items)
VTuple(items) == Val("tuple", 0, "", items)
VDict(entries) == Val("dict", 0, "", entries)
VOrderedDict(entries) == Val("OrderedDict", 0, "", entries)
\* a zero-argument callable returning the int n (a `lambda: n` default)
VFn(n) == Val("function", n, "", <<>>)
\* base.UNDEFINED: the "no value" sentinel
UNDEFINED == Val("UNDEFINED", 0, "", <<>>)

Entry(k, v) == [k |-> k, v |-> v]
DictKeys(d) == {d.e[i].k : i \in 1..Len(d.e)}
DictGet(d, k) == (CHOOSE i \in 1..Len(d.e) : d.e[i].k = k)
DictVal(d, k) == d.e[DictGet(d, k)].v

\* the default itself, never called (a faulty variant)
ApplyDefault_uncalled(d) == d

\* `default if not callable(default) else default()`
ApplyDefault(d) == IF d.t = "function" THEN VInt(d.n) ELSE d

(***************************************************************************)
(* Schemas: what a caller hands to parse.                                  *)
(*   inst   : a Validator instance (heap index id)                         *)
(*   class  : a Validator subclass (s = class name)                        *)
(*   name   : a string (s), possibly a registered name                     *)
(*   native : a native Python class (s), e.g. int                          *)
(*   list   : a list literal of sub-schemas sub                            *)
(*   dict   : a dict literal; keys[i] is the i-th key, sub[i] its schema   *)
(*   junk   : any other hashable object (1, True, 3.2, object())           *)
(***************************************************************************)
Sch(t, id, s, keys, sub) == [t |-> t, id |-> id, s |-> s, keys |-> keys, sub |-> sub]
SInst(id) == Sch("inst", id, "", <<>>, <<>>)
SClass(c) == Sch("class", 0, c, <<>>, <<>>)
SName(n) == Sch("name", 0, n, <<>>, <<>>)
SNative(c) == Sch("native", 0, c, <<>>, <<>>)
SList(sub) == Sch("list", 0, "", <<>>, sub)
STuple(sub) == Sch("tuple", 0, "", <<>>, sub)
SDict(keys, sub) == Sch("dict", 0, "", keys, sub)
SJunk == Sch("junk", 0, "", <<>>, <<>>)
SNoSchema == Sch("None", 0, "", <<>>, <<>>)

\* a property key of a dict schema: a plain name, or Optional(key, default)
Key(k) == [k |-> k, opt |-> FALSE, default |-> UNDEFINED]
Optional(k, default) == [k |-> k, opt |-> TRUE, default |-> default]

Contexts == {"A", "B"}
NoContext == "None"

(***************************************************************************)
(* Validator instances.  One record shape for every class:                 *)
(*   cls, val_context, hasSchemas/schemas (unparsed sub-schemas),          *)
(*   validators (resolved children, by identity), default (NoneValue,      *)
(*   Nullable), accept (Type.accept_types for a native class), and for     *)
(*   Object: keys (the keys of _all / _named_validators in order),         *)
(*   required (_required_keys), additional, additional_schema,             *)
(*   ignore_optional_errors; for Condition, AdaptBy, AdaptTo: fn (the      *)
(*   predicate, adaptor or target class, by name), traps (the exception    *)
(*   classes caught; {} is a false traps) and exact; for                   *)
(*   HomogeneousSequence: min_length, max_length.                          *)
(***************************************************************************)
\* min_length=None, max_length=None
NoLength == -1

Validator(cls) ==
    [cls |-> cls, val_context |-> NoContext, hasSchemas |-> FALSE,
     schemas |-> <<>>, validators |-> <<>>, default |-> VNone, accept |-> "",
     keys |-> <<>>, required |-> {}, additional |-> "True",
     additional_schema |-> SNoSchema, additional_validator |-> 0,
     ignore_optional_errors |-> FALSE, fn |-> "", traps |-> {}, exact |-> FALSE,
     min_length |-> NoLength, max_length |-> NoLength]

\* Composite.__init__(*schemas): AnyOf, AllOf, ChainOf
Composite(cls, schemas) ==
    [Validator(cls) EXCEPT !.hasSchemas = TRUE, !.schemas = schemas]

NoneValue(default) == [Validator("NoneValue") EXCEPT !.default = default]

Nullable(schema, default) ==
    [Validator("Nullable") EXCEPT !.hasSchemas = TRUE, !.schemas = <<schema>>,
                                  !.default = default]

\* Type(accept_types=obj)
Type(accept_types) == [Validator("Type") EXCEPT !.accept = accept_types]

\* HomogeneousSequence(*obj) for a list literal of 0 or 1 schemas
HomogeneousSequence(items) ==
    [Validator("HomogeneousSequence") EXCEPT !.hasSchemas = TRUE, !.schemas = items]

\* HomogeneousSequence(item_schema, min_length, max_length)
HomogeneousSequence_lengths(items, min_length, max_length) ==
    [HomogeneousSequence(items) EXCEPT !.min_length = min_length,
                                       !.max_length = max_length]

\* HeterogeneousSequence(*item_schemas)
HeterogeneousSequence(item_schemas) ==
    [Validator("HeterogeneousSequence") EXCEPT !.hasSchemas = TRUE, !.schemas = item_schemas]

\* Object(properties, additional, ignore_optional_errors)
Object(keys, schemas, additional, ignore_optional_errors) ==
    [Validator("Object") EXCEPT
        !.hasSchemas = TRUE, !.schemas = schemas, !.keys = keys,
        !.required = {keys[i].k : i \in {j \in 1..Len(keys) : ~keys[j].opt}},
        !.additional = additional,
        !.ignore_optional_errors = ignore_optional_errors]

\* Mapping(key_schema, value_schema); SNoSchema is None
Mapping(key_schema, value_schema) ==
    [Validator("Mapping") EXCEPT !.hasSchemas = TRUE,
                                 !.schemas = <<key_schema, value_schema>>,
                                 !.validators = <<0, 0>>]

\* Condition(predicate, traps)
Condition(predicate, traps) ==
    [Validator("Condition") EXCEPT !.fn = predicate, !.traps = traps]

\* AdaptBy(adaptor, traps)
AdaptBy(adaptor, traps) ==
    [Validator("AdaptBy") EXCEPT !.fn = adaptor, !.traps = traps]

\* AdaptTo(target_cls, traps, exact)
AdaptTo(target_cls, traps, exact) ==
    [Validator("AdaptTo") EXCEPT !.fn = target_cls, !.traps = traps, !.exact = exact]

\* Classes whose __init__ has a required positional parameter
NeedsArguments(cls) == cls \in {"Pattern", "Condition", "AdaptBy", "AdaptTo", "Nullable"}

\* cls(): a Validator subclass called with no arguments
Instantiate(cls) ==
    CASE cls \in {"AnyOf", "AllOf", "ChainOf"} -> Composite(cls, <<>>)
      [] cls = "HomogeneousSequence" -> HomogeneousSequence(<<>>)
      [] cls = "HeterogeneousSequence" -> HeterogeneousSequence(<<>>)
      [] cls = "Object" -> Object(<<>>, <<>>, "True", FALSE)
      [] cls = "Mapping" -> Mapping(SNoSchema, SNoSchema)
      [] OTHER -> Validator(cls)

(***************************************************************************)
(* ValidationContext: the name registry and the factories.                 *)
(***************************************************************************)
\* the names the caller uses as registry keys
RegNames == {"integer", "string", "number", "x"}

\* a registry slot: no such key, a Validator subclass, or a Validator instance
NoEntry == [k |-> "absent", cls |-> "", id |-> 0]
ClassEntry(cls) == [k |-> "class", cls |-> cls, id |-> 0]
InstEntry(id) == [k |-> "inst", cls |-> "", id |-> id]

\* a factory: the key it is registered under, the function, and (ObjectFactory)
\* its two options
Factory(key, fn, additional_properties, ignore_optional_property_errors) ==
    [key |-> key, fn |-> fn, additional_properties |-> additional_properties,
     ignore_optional_property_errors |-> ignore_optional_property_errors]

\* ObjectFactory(additional_properties, ignore_optional_property_errors)
ObjectFactory(key, additional_properties, ignore_optional_property_errors) ==
    Factory(key, "ObjectFactory", additional_properties, ignore_optional_property_errors)

default_named_validators ==
    [n \in RegNames |->
        CASE n = "integer" -> ClassEntry("Integer")
          [] n = "string" -> ClassEntry("String")
          [] n = "number" -> ClassEntry("Number")
          [] OTHER -> NoEntry]

\* in registration (dict insertion) order
default_validators_factories ==
    << Factory("HomogeneousSequence", "homogeneous_sequence_factory", "True", FALSE),
       ObjectFactory("Object", "True", FALSE),
       Factory("HeterogeneousSequence", "heterogeneous_sequence_factory", "True", FALSE),
       Factory("Type", "type_factory", "True", FALSE),
       Factory("Pattern", "pattern_factory", "True", FALSE),
       Factory("Condition", "condition_factory", "True", FALSE) >>

\* validators.make_default_validation_context(): context A
make_default_validation_context ==
    [named_validators |-> default_named_validators,
     validators_factories |-> default_validators_factories]

\* json_validation_context.make_json_validation_context(): context B, the
\* default registries with json_repr and the JSON type names
make_json_validation_context ==
    [named_validators |-> make_default_validation_context.named_validators,
     validators_factories |-> make_default_validation_context.validators_factories]

\* the representation function of a context: compatible_repr or json_repr
ReprMethod(c) == IF c = "B" THEN "json_repr" ELSE "compatible_repr"

(***************************************************************************)
(* The factories (validators.py).  Each returns a new, unbound validator   *)
(* or Nothing (Python's None).                                             *)
(***************************************************************************)
Nothing == Validator("None")

\* the factories, with an ObjectFactory that passes its constructor defaults
\* (a faulty variant)
FactoryApply_constructor_defaults(f, obj) ==
    CASE f.fn = "homogeneous_sequence_factory" ->
            IF obj.t = "list" /\ Len(obj.sub) <= 1
            THEN HomogeneousSequence(obj.sub) ELSE Nothing
      [] f.fn = "ObjectFactory" ->
            IF obj.t = "dict" THEN Object(obj.keys, obj.sub, "True", FALSE) ELSE Nothing
      [] f.fn = "heterogeneous_sequence_factory" ->
            IF obj.t = "tuple" THEN HeterogeneousSequence(obj.sub) ELSE Nothing
      [] f.fn = "type_factory" ->
            IF obj.t \in {"native", "class"} THEN Type(obj.s) ELSE Nothing
      [] OTHER -> Nothing

FactoryApply(f, obj) ==
    CASE f.fn = "homogeneous_sequence_factory" ->
            IF obj.t = "list" /\ Len(obj.sub) <= 1
            THEN HomogeneousSequence(obj.sub) ELSE Nothing
      [] f.fn = "ObjectFactory" ->
            IF obj.t = "dict"
            THEN Object(obj.keys, obj.sub, f.additional_properties,
                        f.ignore_optional_property_errors)
            ELSE Nothing
      [] f.fn = "heterogeneous_sequence_factory" ->
            IF obj.t = "tuple" THEN HeterogeneousSequence(obj.sub) ELSE Nothing
      [] f.fn = "type_factory" ->
            IF obj.t \in {"native", "class"} THEN Type(obj.s) ELSE Nothing
      [] OTHER -> Nothing   \* compiled regexps, callables: not in the schemas drawn

\* the positions of the factories that return a validator for obj
Accepting(factories, obj) ==
    {i \in 1..Len(factories) : FactoryApply(factories[i], obj) # Nothing}

SetMin(S) == CHOOSE x \in S : \A y \in S : x <= y
SetMax(S) == CHOOSE x \in S : \A y \in S : x >= y

\* `for _, factory in iteritems(self.validators_factories)`: the position of the
\* factory whose result is used, 0 when every factory returns None
FirstFactory(factories, obj) ==
    IF Accepting(factories, obj) = {} THEN 0 ELSE SetMin(Accepting(factories, obj))

(***************************************************************************)
(* parse.  The program state a parse reads and writes is threaded through  *)
(* as st = [heap, named_validators, validators_factories]; a call returns  *)
(* [st, error, id]: the state it leaves (also when it raises), the         *)
(* exception class ("" when it returns) and the validator's identity.      *)
(***************************************************************************)
State(h, nv, vf) == [heap |-> h, named_validators |-> nv, validators_factories |-> vf]
Return(st, id) == [st |-> st, error |-> "", id |-> id]
Raise(st, error) == [st |-> st, error |-> error, id |-> 0]

\* a constructor call: the new object's identity is Len(heap) + 1
New(st, v) == Return([st EXCEPT !.heap = Append(@, v)], Len(st.heap) + 1)

\* Validator.set_validation_context, bound on every parse (a faulty variant)
set_validation_context_rebind(v, context) == [v EXCEPT !.val_context = context]

\* Validator.set_validation_context
set_validation_context(v, context) ==
    IF v.val_context = NoContext THEN [v EXCEPT !.val_context = context] ELSE v

\* `self.named_validators[obj] = validator = validator()`, without the store (a faulty variant)
Memoize_forget(nv, c, name, id) == nv

\* `self.named_validators[obj] = validator = validator()`
Memoize(nv, c, name, id) == [nv EXCEPT ![c][name] = InstEntry(id)]

\* does `self.named_validators[obj]` find an entry (no KeyError, no TypeError)?
Registered(st, c, obj) ==
    obj.t = "name" /\ obj.s \in RegNames /\ st.named_validators[c][obj.s].k # "absent"

\* ValidationContext._get_validator, never consulting the factories (a faulty variant)
get_validator_no_factories(st, c, obj) ==
    IF Registered(st, c, obj) /\ st.named_validators[c][obj.s].k = "inst"
    THEN Return(st, st.named_validators[c][obj.s].id)
    ELSE Return(st, 0)

\* ValidationContext._get_validator; id 0 is None
get_validator(st, c, obj) ==
    IF Registered(st, c, obj)
    THEN LET e == st.named_validators[c][obj.s] IN
         IF e.k = "class"
         THEN IF NeedsArguments(e.cls) THEN Raise(st, "TypeError")
              ELSE LET n == New(st, Instantiate(e.cls)) IN
                   Return([n.st EXCEPT !.named_validators =
                               Memoize(@, c, obj.s, n.id)], n.id)
         ELSE Return(st, e.id)
    ELSE LET i == FirstFactory(st.validators_factories[c], obj) IN
         IF i = 0 THEN Return(st, 0)
         ELSE New(st, FactoryApply(st.validators_factories[c][i], obj))

\* ValidationContext.parse, lines 184-189: the validator the schema denotes
Resolve(st, c, obj) ==
    CASE obj.t = "inst" -> Return(st, obj.id)
      [] obj.t = "class" ->
            IF NeedsArguments(obj.s) THEN Raise(st, "TypeError")
            ELSE New(st, Instantiate(obj.s))
      [] OTHER -> get_validator(st, c, obj)

RECURSIVE parse(_, _, _), parse_hook(_, _), parse_all(_, _, _)

\* list(imap(self.val_context.parse, schemas)): [st, error, ids]
parse_all(st, c, schemas) ==
    IF schemas = <<>> THEN [st |-> st, error |-> "", ids |-> <<>>]
    ELSE LET first == parse(st, c, Head(schemas)) IN
         IF first.error # "" THEN [st |-> first.st, error |-> first.error, ids |-> <<>>]
         ELSE LET rest == parse_all(first.st, c, Tail(schemas)) IN
              [st |-> rest.st, error |-> rest.error,
               ids |-> IF rest.error # "" THEN <<>> ELSE <<first.id>> \o rest.ids]

\* Composite.parse without `del self._schemas` (a faulty variant)
Composite_parse_keeping_schemas(st, id) ==
    LET v == st.heap[id] IN
    IF ~v.hasSchemas \/ (v.cls = "HomogeneousSequence" /\ v.schemas = <<>>)
    THEN Return(st, id)
    ELSE LET r == parse_all(st, v.val_context, v.schemas) IN
         IF r.error # "" THEN Raise(r.st, r.error)
         ELSE Return([r.st EXCEPT !.heap[id].validators = r.ids], id)

\* Composite.parse / HomogeneousSequence.parse
Composite_parse(st, id) ==
    LET v == st.heap[id] IN
    IF ~v.hasSchemas \/ (v.cls = "HomogeneousSequence" /\ v.schemas = <<>>)
    THEN Return(st, id)
    ELSE LET r == parse_all(st, v.val_context, v.schemas) IN
         IF r.error # "" THEN Raise(r.st, r.error)
         ELSE Return([r.st EXCEPT !.heap[id] =
                         [@ EXCEPT !.validators = r.ids, !.hasSchemas = FALSE,
                                   !.schemas = <<>>]], id)

\* Nullable.parse always wrapping the resolved validator in a new AnyOf (a
\* faulty variant)
Nullable_parse_wrapping(st, id) ==
    LET v == st.heap[id] IN
    IF ~v.hasSchemas THEN Return(st, id)
    ELSE LET r == parse(st, v.val_context, v.schemas[1]) IN
         IF r.error # "" THEN Raise(r.st, r.error)
         ELSE LET nn == New(r.st, NoneValue(v.default))
                  none == parse(nn.st, v.val_context, SInst(nn.id))
                  na == New(none.st, Composite("AnyOf", <<SInst(r.id), SInst(none.id)>>))
                  any == parse(na.st, v.val_context, SInst(na.id))
              IN  Return([any.st EXCEPT
                     !.heap[id] = [@ EXCEPT !.validators = <<any.id>>,
                                            !.hasSchemas = FALSE,
                                            !.schemas = <<>>]], id)

\* Nullable.parse
Nullable_parse(st, id) ==
    LET v == st.heap[id] IN
    IF ~v.hasSchemas THEN Return(st, id)
    ELSE LET r == parse(st, v.val_context, v.schemas[1]) IN
         IF r.error # "" THEN Raise(r.st, r.error)
         ELSE LET nn == New(r.st, NoneValue(v.default))
                  none == parse(nn.st, v.val_context, SInst(nn.id))
              IN  IF none.st.heap[r.id].cls = "AnyOf"
                  THEN Return([none.st EXCEPT
                          !.heap[r.id].validators = Append(@, none.id),
                          !.heap[id] = [@ EXCEPT !.validators = <<r.id>>,
                                                 !.hasSchemas = FALSE,
                                                 !.schemas = <<>>]], id)
                  ELSE LET na == New(none.st, Composite("AnyOf", <<SInst(r.id), SInst(none.id)>>))
                           any == parse(na.st, v.val_context, SInst(na.id))
                       IN  Return([any.st EXCEPT
                              !.heap[id] = [@ EXCEPT !.validators = <<any.id>>,
                                                     !.hasSchemas = FALSE,
                                                     !.schemas = <<>>]], id)

\* Object.parse
Object_parse(st, id) ==
    LET v == st.heap[id] IN
    IF ~v.hasSchemas THEN Return(st, id)
    ELSE LET a == IF v.additional = "schema"
                  THEN parse(st, v.val_context,
                             IF v.additional_validator # 0
                             THEN SInst(v.additional_validator) ELSE v.additional_schema)
                  ELSE Return(st, 0)
         IN  IF a.error # "" THEN Raise(a.st, a.error)
             ELSE LET st1 == [a.st EXCEPT !.heap[id].additional_validator = a.id]
                      r == parse_all(st1, v.val_context, v.schemas)
                  IN  IF r.error # "" THEN Raise(r.st, r.error)
                      ELSE Return([r.st EXCEPT !.heap[id] =
                                      [@ EXCEPT !.validators = r.ids,
                                                !.hasSchemas = FALSE,
                                                !.schemas = <<>>]], id)

\* Mapping.parse; validator 0 is None
Mapping_parse(st, id) ==
    LET v == st.heap[id] IN
    IF ~v.hasSchemas THEN Return(st, id)
    ELSE LET k == IF v.schemas[1] # SNoSchema
                  THEN parse(st, v.val_context, v.schemas[1]) ELSE Return(st, 0)
         IN  IF k.error # "" THEN Raise(k.st, k.error)
             ELSE LET st1 == [k.st EXCEPT !.heap[id].validators[1] = k.id]
                      w == IF v.schemas[2] # SNoSchema
                           THEN parse(st1, v.val_context, v.schemas[2])
                           ELSE Return(st1, 0)
                  IN  IF w.error # "" THEN Raise(w.st, w.error)
                      ELSE Return([w.st EXCEPT !.heap[id] =
                                      [@ EXCEPT !.validators[2] = w.id,
                                                !.hasSchemas = FALSE,
                                                !.schemas = <<>>]], id)

\* validator.parse(), by class
parse_hook(st, id) ==
    CASE st.heap[id].cls \in {"AnyOf", "AllOf", "ChainOf", "HomogeneousSequence",
                              "HeterogeneousSequence"} ->
            Composite_parse(st, id)
      [] st.heap[id].cls = "Nullable" -> Nullable_parse(st, id)
      [] st.heap[id].cls = "Object" -> Object_parse(st, id)
      [] st.heap[id].cls = "Mapping" -> Mapping_parse(st, id)
      [] OTHER -> Return(st, id)

\* ValidationContext.parse
parse(st, c, obj) ==
    LET r == Resolve(st, c, obj) IN
    IF r.error # "" THEN r
    ELSE IF r.id = 0 THEN Raise(r.st, "SchemaError")
    ELSE parse_hook([r.st EXCEPT !.heap[r.id] = set_validation_context(@, c)], r.id)

(***************************************************************************)
(* ValidationError and validate.                                           *)
(***************************************************************************)
\* ValidationError(val_context, msg, value); `keys` holds the property names a
\* "missing required"/"unexpected" message lists after its msg prefix
ValidationError(val_context, msg, value) ==
    [val_context |-> val_context, msg |-> msg, keys |-> {}, value |-> value,
     error_path_items |-> <<>>]

NoError == ValidationError(NoContext, "", UNDEFINED)

\* ValidationError.add_error_path_item, inserting at the front (a faulty variant)
add_error_path_item_front(ex, item) ==
    [ex EXCEPT !.error_path_items = <<item>> \o @]

\* ValidationError.add_error_path_item
add_error_path_item(ex, item) ==
    [ex EXCEPT !.error_path_items = Append(@, item)]

\* TypeNames.get_type_name for the type-name registry of context c: B is the
\* JSON preset (json_validation_context.py), A has no alternative names
get_type_name(c, type) ==
    IF c = "B"
    THEN CASE type = "NoneType" -> "null"
           [] type = "int" -> "integer"
           [] type = "str" -> "string"
           [] type \in {"list", "Sequence"} -> "array"
           [] type \in {"dict", "Mapping"} -> "object"
           [] OTHER -> type
    ELSE type

\* sep.join(strs)
JoinWith(sep, strs) ==
    LET RECURSIVE J(_)
        J(q) == IF q = <<>> THEN ""
                ELSE IF Len(q) = 1 THEN q[1]
                ELSE q[1] \o sep \o J(Tail(q))
    IN J(strs)

RECURSIVE Repr(_, _)
\* the representation function of context c applied to a value: json_repr for
\* B (compat.JsonRepr), compatible_repr for A.  The values drawn are short
\* enough that reprlib truncates nothing; a dict is rendered in the order of
\* its entries.
Repr(c, value) ==
    LET json == ReprMethod(c) = "json_repr" IN
    CASE value.t = "str" -> IF json THEN "\"" \o value.s \o "\""
                            ELSE "'" \o value.s \o "'"
      [] value.t = "int" -> ToString(value.n)
      [] value.t = "NoneType" -> IF json THEN "null" ELSE "None"
      [] value.t = "bool" -> IF json THEN (IF value.n = 1 THEN "true" ELSE "false")
                             ELSE (IF value.n = 1 THEN "True" ELSE "False")
      [] value.t = "list" ->
            "[" \o JoinWith(", ", [i \in 1..Len(value.e) |-> Repr(c, value.e[i])]) \o "]"
      [] value.t = "tuple" ->
            "(" \o JoinWith(", ", [i \in 1..Len(value.e) |-> Repr(c, value.e[i])])
                \o (IF Len(value.e) = 1 THEN ",)" ELSE ")")
      [] value.t = "dict" ->
            "{" \o JoinWith(", ", [i \in 1..Len(value.e) |->
                       Repr(c, VStr(value.e[i].k)) \o ": " \o Repr(c, value.e[i].v)]) \o "}"
      [] OTHER -> "<" \o value.t \o ">"

Reverse(q) == [i \in 1..Len(q) |-> q[Len(q) + 1 - i]]

\* to_text, lines 61-67, with the first item always taken as the name (a faulty variant)
path_items_first_is_name(c, error_path_items) ==
    LET items == Reverse(error_path_items) IN
    [n \in 1..Len(items) |->
        IF n = 1 THEN (IF items[1].t = "str" THEN items[1].s ELSE ToString(items[1].n))
        ELSE "[" \o Repr(c, items[n]) \o "]"]

\* to_text, lines 61-67: the components of the rendered path
path_items(c, error_path_items) ==
    LET reversed == Reverse(error_path_items)
        items == IF reversed[1].t # "str" THEN <<VStr("value")>> \o reversed
                 ELSE reversed
    IN  [n \in 1..Len(items) |->
            IF n = 1 THEN items[1].s ELSE "[" \o Repr(c, items[n]) \o "]"]

\* ValidationError.to_text
to_text(ex) ==
    LET message == IF ex.value # UNDEFINED
                   THEN "Invalid value " \o Repr(ex.val_context, ex.value) \o " ("
                        \o get_type_name(ex.val_context, ex.value.t) \o "): " \o ex.msg
                   ELSE ex.msg
    IN  IF Len(ex.error_path_items) > 0
        THEN message \o " (at "
             \o JoinWith("", path_items(ex.val_context, ex.error_path_items)) \o ")"
        ELSE message

\* isinstance(value, cls) for the classes the validators test against
IsInstance(value, cls) ==
    CASE cls = "Integral" -> value.t \in {"int", "bool"}
      [] cls = "Number" -> value.t \in {"int", "bool"}
      [] cls = "int" -> value.t \in {"int", "bool"}
      [] cls = "Sequence" -> value.t \in {"list", "tuple", "str"}
      [] cls = "Mapping" -> value.t \in {"dict", "OrderedDict"}
      [] cls = "dict" -> value.t \in {"dict", "OrderedDict"}
      [] cls = "" -> FALSE      \* the empty tuple of types
      [] OTHER -> value.t = cls

\* the class attributes name, accept_types, reject_types of a validator
ClassName(v) ==
    CASE v.cls = "Integer" -> "integer"
      [] v.cls = "Number" -> "number"
      [] v.cls = "String" -> "string"
      [] v.cls = "Boolean" -> "boolean"
      [] OTHER -> ""
AcceptTypes(v) ==
    CASE v.cls = "Integer" -> "Integral"
      [] v.cls = "Number" -> "Number"
      [] v.cls = "String" -> "str"
      [] v.cls = "Boolean" -> "bool"
      [] v.cls \in {"HomogeneousSequence", "HeterogeneousSequence"} -> "Sequence"
      [] v.cls \in {"Object", "Mapping"} -> "Mapping"
      [] OTHER -> v.accept
RejectTypes(v) ==
    CASE v.cls \in {"Integer", "Number"} -> "bool"
      [] v.cls \in {"HomogeneousSequence", "HeterogeneousSequence"} -> "str"
      [] OTHER -> ""

\* `getattr(self._predicate, "__name__", self._predicate)`: a lambda is named
\* "<lambda>"
PredicateName(fn) == IF fn = "gt0" THEN "<lambda>" ELSE fn

RECURSIVE humanized_name(_, _)
\* Validator.humanized_name and its overrides
humanized_name(h, id) ==
    LET v == h[id] IN
    CASE v.cls = "AnyOf" ->
            JoinWith(" or ", [i \in 1..Len(v.validators) |-> humanized_name(h, v.validators[i])])
      [] v.cls = "AllOf" ->
            JoinWith(" and ", [i \in 1..Len(v.validators) |-> humanized_name(h, v.validators[i])])
      [] v.cls = "ChainOf" ->
            JoinWith(" chained to ", [i \in 1..Len(v.validators) |-> humanized_name(h, v.validators[i])])
      [] v.cls = "Nullable" -> humanized_name(h, v.validators[1])
      [] v.cls = "NoneValue" -> get_type_name(v.val_context, "NoneType")
      [] v.cls = "Condition" -> PredicateName(v.fn)
      [] v.cls \in {"AdaptBy", "AdaptTo"} -> v.cls
      [] OTHER -> IF ClassName(v) # "" THEN ClassName(v)
                  ELSE get_type_name(v.val_context, AcceptTypes(v))

\* the outcome of a validate call: the adapted value, or the exception raised
\* (exception is its class; error the ValidationError when it is one, text
\* the text of any other exception), and the validators whose validate ran,
\* in call order
Accept(value, calls) ==
    [ok |-> TRUE, value |-> value, error |-> NoError, calls |-> calls,
     exception |-> "", text |-> ""]
Reject(error, calls) ==
    [ok |-> FALSE, value |-> UNDEFINED, error |-> error, calls |-> calls,
     exception |-> "ValidationError", text |-> ""]
\* an exception that is no ValidationError leaves validate
Propagate(exception, text, calls) ==
    [ok |-> FALSE, value |-> UNDEFINED, error |-> NoError, calls |-> calls,
     exception |-> exception, text |-> text]

\* `except ValidationError as ex: raise ex.add_error_path_item(item)`: any
\* other exception passes through
Reraise(r, item, calls) ==
    IF r.exception = "ValidationError"
    THEN Reject(add_error_path_item(r.error, item), calls)
    ELSE Propagate(r.exception, r.text, calls)

\* Validator.error
Validator_error(h, id, value) ==
    ValidationError(h[id].val_context, "must be " \o humanized_name(h, id), value)

\* Type.validate accepting a value when the context's name for its class is
\* the validator's name (a faulty variant)
Type_validate_by_type_name(h, id, value) ==
    IF get_type_name(h[id].val_context, value.t) # humanized_name(h, id)
    THEN Reject(Validator_error(h, id, value), <<id>>)
    ELSE Accept(value, <<id>>)

\* Type.validate
Type_validate(h, id, value) ==
    IF ~IsInstance(value, AcceptTypes(h[id])) \/ IsInstance(value, RejectTypes(h[id]))
    THEN Reject(Validator_error(h, id, value), <<id>>)
    ELSE Accept(value, <<id>>)

\* NoneValue.validate
NoneValue_validate(h, id, value) ==
    IF value # VNone THEN Reject(Validator_error(h, id, value), <<id>>)
    ELSE Accept(ApplyDefault(h[id].default), <<id>>)

\* the result of calling a Python callable: the value returned, or the class
\* and text of the exception raised
Returns(value) == [raised |-> "", text |-> "", value |-> value]
Raises(exception, text) == [raised |-> exception, text |-> text, value |-> UNDEFINED]

\* the instant a POSIX timestamp denotes
VDatetime(n) == Val("datetime", n, "", <<>>)

\* int(s) for the strings the caller uses ("nan" and the like have no value)
IntLiterals == {"1373475820", "0", "-3"}
IntOf(s) == CASE s = "1373475820" -> 1373475820 [] s = "0" -> 0 [] s = "-3" -> 0 - 3

\* the words the caller's lower_word knows, and their lower case
Words == {"Foo", "foo", "bar"}
Lower(s) == IF s = "Foo" THEN "foo" ELSE s

\* fn(value) for the callables given to Condition, AdaptBy and AdaptTo:
\*   "gt0"  lambda x: x > 0
\*   "int"  the class int
\*   "utcfromtimestamp"  datetime.utcfromtimestamp
\*   "lower_word"  k.lower() for an alphabetic k, ValueError for any other
Call(fn, value) ==
    CASE fn = "gt0" ->
            IF value.t \in {"int", "bool"} THEN Returns(VBool(value.n > 0))
            ELSE Raises("TypeError", "'>' not supported between instances of '"
                                     \o value.t \o "' and 'int'")
      [] fn = "int" ->
            IF value.t \in {"int", "bool"} THEN Returns(VInt(value.n))
            ELSE IF value.t = "str"
            THEN IF value.s \in IntLiterals THEN Returns(VInt(IntOf(value.s)))
                 ELSE Raises("ValueError", "invalid literal for int() with base 10: '"
                                           \o value.s \o "'")
            ELSE Raises("TypeError", "int() argument must be a string, a bytes-like "
                                     \o "object or a real number, not '" \o value.t \o "'")
      [] fn = "utcfromtimestamp" ->
            IF value.t \in {"int", "bool"} THEN Returns(VDatetime(value.n))
            ELSE Raises("TypeError", "'" \o value.t
                                     \o "' object cannot be interpreted as an integer")
      [] fn = "lower_word" ->
            IF value.t # "str"
            THEN Raises("AttributeError", "'" \o value.t \o "' object has no attribute 'isalpha'")
            ELSE IF value.s \in Words THEN Returns(VStr(Lower(value.s)))
            ELSE Raises("ValueError", "not a word: '" \o value.s \o "'")

\* `except self._traps` catching whatever is raised (a faulty variant)
Trapped_all(exception, traps) == TRUE

\* `except self._traps`: does a try with these traps catch the exception?
Trapped(exception, traps) == "Exception" \in traps \/ exception \in traps

\* `if not is_valid`: the truth value of what the predicate returned
Truthy(value) ==
    CASE value.t \in {"int", "bool"} -> value.n # 0
      [] value.t = "str" -> value.s # ""
      [] value.t \in {"list", "tuple", "dict", "OrderedDict"} -> value.e # <<>>
      [] value.t = "NoneType" -> FALSE
      [] OTHER -> TRUE

\* Condition.validate and Condition.error
Condition_validate(h, id, value) ==
    LET c == Call(h[id].fn, value)
        rejected == Reject(ValidationError(h[id].val_context,
                               "must satisfy predicate " \o humanized_name(h, id),
                               value), <<id>>)
    IN  IF c.raised # ""
        THEN IF h[id].traps # {} /\ Trapped(c.raised, h[id].traps) THEN rejected
             ELSE Propagate(c.raised, c.text, <<id>>)
        ELSE IF ~Truthy(c.value) THEN rejected
        ELSE Accept(value, <<id>>)

\* AdaptBy.validate
AdaptBy_validate(h, id, value) ==
    LET c == Call(h[id].fn, value) IN
    IF c.raised = "" THEN Accept(c.value, <<id>>)
    ELSE IF h[id].traps # {} /\ Trapped(c.raised, h[id].traps)
    THEN Reject(ValidationError(h[id].val_context, c.text, value), <<id>>)
    ELSE Propagate(c.raised, c.text, <<id>>)

\* AdaptTo.validate
AdaptTo_validate(h, id, value) ==
    IF IsInstance(value, h[id].fn) /\ (~h[id].exact \/ value.t = h[id].fn)
    THEN Accept(value, <<id>>)
    ELSE AdaptBy_validate(h, id, value)

\* dict operations on a value of class dict
DictSet(d, k, v) ==
    IF k \in DictKeys(d) THEN [d EXCEPT !.e[DictGet(d, k)].v = v]
    ELSE [d EXCEPT !.e = Append(@, Entry(k, v))]
DictDel(d, k) ==
    [d EXCEPT !.e = SelectSeq(@, LAMBDA en : en.k # k)]

RECURSIVE validate(_, _, _)

\* AnyOf.validate trying the children last to first (a faulty variant)
RECURSIVE AnyOf_validate_reversed(_, _, _, _, _, _)
AnyOf_validate_reversed(h, id, value, i, messages, calls) ==
    IF i > Len(h[id].validators)
    THEN Reject(ValidationError(h[id].val_context, JoinWith(" or ", messages), value), calls)
    ELSE LET r == validate(h, h[id].validators[Len(h[id].validators) + 1 - i], value) IN
         IF r.ok THEN Accept(r.value, calls \o r.calls)
         ELSE IF r.exception # "ValidationError"
         THEN Propagate(r.exception, r.text, calls \o r.calls)
         ELSE AnyOf_validate_reversed(h, id, value, i + 1, Append(messages, r.error.msg),
                                      calls \o r.calls)

\* AnyOf.validate keeping the path items of the last child's error (a faulty
\* variant)
RECURSIVE AnyOf_validate_child_path(_, _, _, _, _, _)
AnyOf_validate_child_path(h, id, value, i, messages, calls) ==
    LET r == validate(h, h[id].validators[i], value) IN
    IF r.ok THEN Accept(r.value, calls \o r.calls)
    ELSE IF r.exception # "ValidationError"
    THEN Propagate(r.exception, r.text, calls \o r.calls)
    ELSE IF i = Len(h[id].validators)
    THEN Reject([r.error EXCEPT !.msg = JoinWith(" or ", Append(messages, r.error.msg)),
                                !.value = value],
                calls \o r.calls)
    ELSE AnyOf_validate_child_path(h, id, value, i + 1, Append(messages, r.error.msg),
                                   calls \o r.calls)

\* AnyOf.validate over the children from position i on
RECURSIVE AnyOf_validate(_, _, _, _, _, _)
AnyOf_validate(h, id, value, i, messages, calls) ==
    IF i > Len(h[id].validators)
    THEN Reject(ValidationError(h[id].val_context, JoinWith(" or ", messages), value), calls)
    ELSE LET r == validate(h, h[id].validators[i], value) IN
         IF r.ok THEN Accept(r.value, calls \o r.calls)
         ELSE IF r.exception # "ValidationError"
         THEN Propagate(r.exception, r.text, calls \o r.calls)
         ELSE AnyOf_validate(h, id, value, i + 1, Append(messages, r.error.msg),
                             calls \o r.calls)

\* AllOf.validate giving each child the previous child's result (a faulty
\* variant)
RECURSIVE AllOf_validate_chained(_, _, _, _, _, _)
AllOf_validate_chained(h, id, value, i, result, calls) ==
    IF i > Len(h[id].validators) THEN Accept(result, calls)
    ELSE LET r == validate(h, h[id].validators[i], result) IN
         IF r.ok THEN AllOf_validate_chained(h, id, value, i + 1, r.value, calls \o r.calls)
         ELSE [r EXCEPT !.calls = calls \o r.calls]

\* AllOf.validate over the children from position i on
RECURSIVE AllOf_validate(_, _, _, _, _, _)
AllOf_validate(h, id, value, i, result, calls) ==
    IF i > Len(h[id].validators) THEN Accept(result, calls)
    ELSE LET r == validate(h, h[id].validators[i], value) IN
         IF r.ok THEN AllOf_validate(h, id, value, i + 1, r.value, calls \o r.calls)
         ELSE [r EXCEPT !.calls = calls \o r.calls]

\* ChainOf.validate giving every child the original value (a faulty variant)
ChainOf_validate_unchained(h, id, value, i, calls) ==
    AllOf_validate(h, id, value, i, value, calls)

\* ChainOf.validate over the children from position i on
RECURSIVE ChainOf_validate(_, _, _, _, _)
ChainOf_validate(h, id, value, i, calls) ==
    IF i > Len(h[id].validators) THEN Accept(value, calls)
    ELSE LET r == validate(h, h[id].validators[i], value) IN
         IF r.ok THEN ChainOf_validate(h, id, r.value, i + 1, calls \o r.calls)
         ELSE [r EXCEPT !.calls = calls \o r.calls]

\* HomogeneousSequence._iter_validated_items from element i on
RECURSIVE iter_validated_items(_, _, _, _, _, _)
iter_validated_items(h, id, value, i, items, calls) ==
    IF i > Len(value.e) THEN Accept([value EXCEPT !.e = items], calls)
    ELSE LET r == validate(h, h[id].validators[1], value.e[i]) IN
         IF r.ok
         THEN iter_validated_items(h, id, value, i + 1, Append(items, r.value),
                                   calls \o r.calls)
         ELSE Reraise(r, VInt(i - 1), calls \o r.calls)

\* HomogeneousSequence.validate, the items validated before the lengths are
\* looked at (a faulty variant)
HomogeneousSequence_validate_items_first(h, id, value) ==
    LET t == Type_validate(h, id, value)
        r == IF h[id].validators = <<>> THEN Accept(value, <<id>>)
             ELSE iter_validated_items(h, id, value, 1, <<>>, <<id>>)
    IN  IF ~t.ok THEN t
        ELSE IF ~r.ok THEN r
        ELSE IF h[id].min_length # NoLength /\ Len(value.e) < h[id].min_length
        THEN Reject(ValidationError(h[id].val_context,
                        "must contain at least " \o ToString(h[id].min_length)
                            \o " elements", value), r.calls)
        ELSE IF h[id].max_length # NoLength /\ Len(value.e) > h[id].max_length
        THEN Reject(ValidationError(h[id].val_context,
                        "must contain at most " \o ToString(h[id].max_length)
                            \o " elements", value), r.calls)
        ELSE r

\* HomogeneousSequence.validate
HomogeneousSequence_validate(h, id, value) ==
    LET t == Type_validate(h, id, value) IN
    IF ~t.ok THEN t
    ELSE IF h[id].min_length # NoLength /\ Len(value.e) < h[id].min_length
    THEN Reject(ValidationError(h[id].val_context,
                    "must contain at least " \o ToString(h[id].min_length)
                        \o " elements", value), <<id>>)
    ELSE IF h[id].max_length # NoLength /\ Len(value.e) > h[id].max_length
    THEN Reject(ValidationError(h[id].val_context,
                    "must contain at most " \o ToString(h[id].max_length)
                        \o " elements", value), <<id>>)
    ELSE IF h[id].validators = <<>> THEN Accept(value, <<id>>)
    ELSE iter_validated_items(h, id, value, 1, <<>>, <<id>>)

\* HeterogeneousSequence._iter_validated_items from element i on:
\* izip(self._item_validators, value) ends with the shorter of the two
RECURSIVE Heterogeneous_iter_validated_items(_, _, _, _, _, _)
Heterogeneous_iter_validated_items(h, id, value, i, items, calls) ==
    IF i > Len(value.e) \/ i > Len(h[id].validators)
    THEN Accept([value EXCEPT !.e = items], calls)
    ELSE LET r == validate(h, h[id].validators[i], value.e[i]) IN
         IF r.ok
         THEN Heterogeneous_iter_validated_items(h, id, value, i + 1,
                  Append(items, r.value), calls \o r.calls)
         ELSE Reraise(r, VInt(i - 1), calls \o r.calls)

\* HeterogeneousSequence.validate without the comparison of the lengths (a
\* faulty variant)
HeterogeneousSequence_validate_zipped(h, id, value) ==
    LET t == Type_validate(h, id, value) IN
    IF ~t.ok THEN t
    ELSE Heterogeneous_iter_validated_items(h, id, value, 1, <<>>, <<id>>)

\* HeterogeneousSequence.validate
HeterogeneousSequence_validate(h, id, value) ==
    LET t == Type_validate(h, id, value) IN
    IF ~t.ok THEN t
    ELSE IF Len(value.e) # Len(h[id].validators)
    THEN Reject(ValidationError(h[id].val_context,
                    ToString(Len(h[id].validators)) \o " items expected, "
                        \o ToString(Len(value.e)) \o " found", value), <<id>>)
    ELSE Heterogeneous_iter_validated_items(h, id, value, 1, <<>>, <<id>>)

\* Mapping._iter_validated_items validating the key, then the value (a faulty
\* variant)
RECURSIVE Mapping_iter_validated_items_key_first(_, _, _, _, _, _)
Mapping_iter_validated_items_key_first(h, id, value, i, result, calls) ==
    IF i > Len(value.e) THEN Accept(result, calls)
    ELSE LET k == value.e[i].k
             rk == IF h[id].validators[1] # 0
                   THEN validate(h, h[id].validators[1], VStr(k))
                   ELSE Accept(VStr(k), <<>>)
         IN  IF ~rk.ok THEN [rk EXCEPT !.calls = calls \o rk.calls]
             ELSE LET rv == IF h[id].validators[2] # 0
                            THEN validate(h, h[id].validators[2], value.e[i].v)
                            ELSE Accept(value.e[i].v, <<>>)
                  IN  IF ~rv.ok THEN Reraise(rv, VStr(k), calls \o rk.calls \o rv.calls)
                      ELSE Mapping_iter_validated_items_key_first(h, id, value, i + 1,
                               DictSet(result, rk.value.s, rv.value),
                               calls \o rk.calls \o rv.calls)

\* Mapping._iter_validated_items from entry i on: the value, then the key
RECURSIVE Mapping_iter_validated_items(_, _, _, _, _, _)
Mapping_iter_validated_items(h, id, value, i, result, calls) ==
    IF i > Len(value.e) THEN Accept(result, calls)
    ELSE LET k == value.e[i].k
             rv == IF h[id].validators[2] # 0
                   THEN validate(h, h[id].validators[2], value.e[i].v)
                   ELSE Accept(value.e[i].v, <<>>)
         IN  IF ~rv.ok
             THEN Reraise(rv, VStr(k), calls \o rv.calls)
             ELSE LET rk == IF h[id].validators[1] # 0
                            THEN validate(h, h[id].validators[1], VStr(k))
                            ELSE Accept(VStr(k), <<>>)
                  IN  IF ~rk.ok THEN [rk EXCEPT !.calls = calls \o rv.calls \o rk.calls]
                      ELSE Mapping_iter_validated_items(h, id, value, i + 1,
                               DictSet(result, rk.value.s, rv.value),
                               calls \o rv.calls \o rk.calls)

\* Mapping.validate
Mapping_validate(h, id, value) ==
    LET t == Type_validate(h, id, value) IN
    IF ~t.ok THEN t
    ELSE Mapping_iter_validated_items(h, id, value, 1, [value EXCEPT !.e = <<>>], <<id>>)

\* Object.validate, lines 684-697, raising for every invalid property whatever
\* ignore_optional_errors says (a faulty variant)
RECURSIVE Object_properties_unignored(_, _, _, _, _, _)
Object_properties_unignored(h, id, value, i, result, calls) ==
    IF i > Len(h[id].keys) THEN Accept(result, calls)
    ELSE LET name == h[id].keys[i].k IN
         IF name \in DictKeys(value)
         THEN LET r == validate(h, h[id].validators[i], DictVal(value, name)) IN
              IF r.ok
              THEN Object_properties_unignored(h, id, value, i + 1,
                                     DictSet(result, name, r.value), calls \o r.calls)
              ELSE Reraise(r, VStr(name), calls \o r.calls)
         ELSE IF h[id].keys[i].opt /\ h[id].keys[i].default # UNDEFINED
         THEN Object_properties_unignored(h, id, value, i + 1,
                                DictSet(result, name, ApplyDefault(h[id].keys[i].default)),
                                calls)
         ELSE Object_properties_unignored(h, id, value, i + 1, result, calls)

\* Object.validate, lines 684-697: the declared properties from position i on
RECURSIVE Object_properties(_, _, _, _, _, _)
Object_properties(h, id, value, i, result, calls) ==
    IF i > Len(h[id].keys) THEN Accept(result, calls)
    ELSE LET name == h[id].keys[i].k IN
         IF name \in DictKeys(value)
         THEN LET r == validate(h, h[id].validators[i], DictVal(value, name)) IN
              IF r.ok
              THEN Object_properties(h, id, value, i + 1,
                                     DictSet(result, name, r.value), calls \o r.calls)
              ELSE IF \/ r.exception # "ValidationError"
                      \/ ~h[id].ignore_optional_errors
                      \/ name \in h[id].required
              THEN Reraise(r, VStr(name), calls \o r.calls)
              ELSE Object_properties(h, id, value, i + 1,
                                     DictDel(result, name), calls \o r.calls)
         ELSE IF h[id].keys[i].opt /\ h[id].keys[i].default # UNDEFINED
         THEN Object_properties(h, id, value, i + 1,
                                DictSet(result, name, ApplyDefault(h[id].keys[i].default)),
                                calls)
         ELSE Object_properties(h, id, value, i + 1, result, calls)

\* Object.validate, lines 712-718: the additional properties from position i on
RECURSIVE Object_additional(_, _, _, _, _, _, _)
Object_additional(h, id, value, names, i, result, calls) ==
    IF i > Len(names) THEN Accept(result, calls)
    ELSE LET r == validate(h, h[id].additional_validator, DictVal(value, names[i])) IN
         IF r.ok
         THEN Object_additional(h, id, value, names, i + 1,
                                DictSet(result, names[i], r.value), calls \o r.calls)
         ELSE Reraise(r, VStr(names[i]), calls \o r.calls)

\* the keys of value that are not required keys, so that Optional keys count
\* as additional (a faulty variant)
AdditionalProperties_required_only(v, value) ==
    LET extra == SelectSeq(value.e, LAMBDA en : en.k \notin v.required)
    IN  [i \in 1..Len(extra) |-> extra[i].k]

\* `[k for k in value if k not in all_keys]`
AdditionalProperties(v, value) ==
    LET all_keys == {v.keys[i].k : i \in 1..Len(v.keys)}
        extra == SelectSeq(value.e, LAMBDA en : en.k \notin all_keys)
    IN  [i \in 1..Len(extra) |-> extra[i].k]

\* `for name in additional_properties: del result[name]`, deleting nothing (a
\* faulty variant)
DictDelAll_none(d, names) == d

RECURSIVE DictDelAll(_, _)
\* `for name in additional_properties: del result[name]`
DictDelAll(d, names) ==
    IF names = <<>> THEN d ELSE DictDelAll(DictDel(d, Head(names)), Tail(names))

\* Object.validate with the required-keys check after the properties (a faulty variant)
Object_validate_required_last(h, id, value) ==
    LET t == Type_validate(h, id, value) IN
    IF ~t.ok THEN t
    ELSE LET p == Object_properties(h, id, value, 1, value, <<id>>)
             missing_required == h[id].required \ DictKeys(value)
         IN  IF ~p.ok THEN p
             ELSE IF missing_required # {}
             THEN Reject([ValidationError(h[id].val_context,
                                          "missing required properties", value)
                             EXCEPT !.keys = missing_required], p.calls)
             ELSE p

\* Object.validate looking for unexpected keys before it validates the
\* declared properties (a faulty variant)
Object_validate_unexpected_first(h, id, value) ==
    LET t == Type_validate(h, id, value) IN
    IF ~t.ok THEN t
    ELSE LET missing_required == h[id].required \ DictKeys(value)
             additional_properties == AdditionalProperties(h[id], value)
         IN  IF missing_required # {}
             THEN Reject([ValidationError(h[id].val_context,
                                          "missing required properties", value)
                             EXCEPT !.keys = missing_required], <<id>>)
             ELSE IF h[id].additional = "False" /\ additional_properties # <<>>
             THEN Reject([ValidationError(h[id].val_context,
                                          "unexpected properties", value)
                             EXCEPT !.keys = {additional_properties[i] :
                                              i \in 1..Len(additional_properties)}],
                         <<id>>)
             ELSE LET p == Object_properties(h, id, value, 1, value, <<id>>) IN
                  IF ~p.ok THEN p
                  ELSE IF h[id].additional = "True" \/ additional_properties = <<>>
                  THEN p
                  ELSE IF h[id].additional = "REMOVE"
                  THEN Accept(DictDelAll(p.value, additional_properties), p.calls)
                  ELSE Object_additional(h, id, value, additional_properties, 1,
                                         p.value, p.calls)

\* Object.validate
Object_validate(h, id, value) ==
    LET t == Type_validate(h, id, value) IN
    IF ~t.ok THEN t
    ELSE LET missing_required == h[id].required \ DictKeys(value) IN
         IF missing_required # {}
         THEN Reject([ValidationError(h[id].val_context,
                                      "missing required properties", value)
                         EXCEPT !.keys = missing_required], <<id>>)
         ELSE LET p == Object_properties(h, id, value, 1, value, <<id>>)
                  additional_properties == AdditionalProperties(h[id], value)
              IN  IF ~p.ok THEN p
                  ELSE IF h[id].additional = "True" \/ additional_properties = <<>>
                  THEN p
                  ELSE IF h[id].additional = "False"
                  THEN Reject([ValidationError(h[id].val_context,
                                               "unexpected properties", value)
                                  EXCEPT !.keys = {additional_properties[i] :
                                                   i \in 1..Len(additional_properties)}],
                              p.calls)
                  ELSE IF h[id].additional = "REMOVE"
                  THEN Accept(DictDelAll(p.value, additional_properties), p.calls)
                  ELSE Object_additional(h, id, value, additional_properties, 1,
                                         p.value, p.calls)

\* validator.validate(value), by class
validate(h, id, value) ==
    CASE h[id].cls = "AnyOf" -> AnyOf_validate(h, id, value, 1, <<>>, <<id>>)
      [] h[id].cls = "AllOf" -> AllOf_validate(h, id, value, 1, value, <<id>>)
      [] h[id].cls = "ChainOf" -> ChainOf_validate(h, id, value, 1, <<id>>)
      [] h[id].cls = "Nullable" ->
            LET r == validate(h, h[id].validators[1], value) IN
            [r EXCEPT !.calls = <<id>> \o @]
      [] h[id].cls = "NoneValue" -> NoneValue_validate(h, id, value)
      [] h[id].cls = "HomogeneousSequence" -> HomogeneousSequence_validate(h, id, value)
      [] h[id].cls = "HeterogeneousSequence" -> HeterogeneousSequence_validate(h, id, value)
      [] h[id].cls = "Object" -> Object_validate(h, id, value)
      [] h[id].cls = "Mapping" -> Mapping_validate(h, id, value)
      [] h[id].cls = "Condition" -> Condition_validate(h, id, value)
      [] h[id].cls = "AdaptBy" -> AdaptBy_validate(h, id, value)
      [] h[id].cls = "AdaptTo" -> AdaptTo_validate(h, id, value)
      [] OTHER -> Type_validate(h, id, value)

(***************************************************************************)
(* The input object.  validate gets a reference to the caller's object;    *)
(* the operators below follow the writes of a call and give the content of *)
(* that object when the call returns or raises.  A container a validator   *)
(* makes (a copy, value.__class__(...)) is another object: writes to it    *)
(* do not reach the input; a child validator called on value[name] or on   *)
(* an element gets the very object the input holds there.                  *)
(***************************************************************************)
\* `result = value` in place of the copy: result is the input object (a
\* faulty variant)
shallow_copy_aliasing(value) == [same |-> TRUE, content |-> value]

\* `result = value.copy()`: a new object with the entries of value
shallow_copy(value) == [same |-> FALSE, content |-> value]

RECURSIVE returns_input(_, _, _)
\* does validate(value), when it returns, return the object it was given?
returns_input(h, id, value) ==
    LET v == h[id]
        n == Len(v.validators)
        RECURSIVE Accepting_child(_)
        Accepting_child(i) ==
            IF i > n THEN 0
            ELSE IF validate(h, v.validators[i], value).ok THEN i
            ELSE Accepting_child(i + 1)
    IN  CASE v.cls \in {"Object", "Mapping", "HeterogeneousSequence", "NoneValue", "AdaptBy"} ->
                FALSE
          [] v.cls = "HomogeneousSequence" -> v.validators = <<>>
          [] v.cls = "AdaptTo" -> IsInstance(value, v.fn) /\ (~v.exact \/ value.t = v.fn)
          [] v.cls = "Nullable" -> returns_input(h, v.validators[1], value)
          [] v.cls = "AnyOf" ->
                /\ Accepting_child(1) # 0
                /\ returns_input(h, v.validators[Accepting_child(1)], value)
          [] v.cls = "AllOf" -> n = 0 \/ returns_input(h, v.validators[n], value)
          [] v.cls = "ChainOf" -> \A i \in 1..n : returns_input(h, v.validators[i], value)
          [] OTHER -> TRUE

RECURSIVE input_after(_, _, _)

\* Object.validate, lines 683-697: the input object after the declared
\* properties from position i on; `same` says whether result is the input
RECURSIVE Object_properties_input(_, _, _, _, _)
Object_properties_input(h, id, input, same, i) ==
    IF i > Len(h[id].keys) THEN [raised |-> FALSE, input |-> input]
    ELSE LET name == h[id].keys[i].k IN
         IF name \in DictKeys(input)
         THEN LET r == validate(h, h[id].validators[i], DictVal(input, name))
                  child == DictSet(input, name,
                                   input_after(h, h[id].validators[i], DictVal(input, name)))
              IN  IF r.ok
                  THEN Object_properties_input(h, id,
                           IF same THEN DictSet(child, name, r.value) ELSE child, same, i + 1)
                  ELSE IF \/ r.exception # "ValidationError"
                          \/ ~h[id].ignore_optional_errors
                          \/ name \in h[id].required
                  THEN [raised |-> TRUE, input |-> child]
                  ELSE Object_properties_input(h, id,
                           IF same THEN DictDel(child, name) ELSE child, same, i + 1)
         ELSE IF h[id].keys[i].opt /\ h[id].keys[i].default # UNDEFINED
         THEN Object_properties_input(h, id,
                  IF same THEN DictSet(input, name, ApplyDefault(h[id].keys[i].default))
                  ELSE input, same, i + 1)
         ELSE Object_properties_input(h, id, input, same, i + 1)

\* Object.validate, lines 712-718: the input object after the additional
\* properties from position i on
RECURSIVE Object_additional_input(_, _, _, _, _, _)
Object_additional_input(h, id, input, same, names, i) ==
    IF i > Len(names) \/ names[i] \notin DictKeys(input) THEN input
    ELSE LET r == validate(h, h[id].additional_validator, DictVal(input, names[i]))
             child == DictSet(input, names[i],
                              input_after(h, h[id].additional_validator,
                                          DictVal(input, names[i])))
         IN  IF r.ok
             THEN Object_additional_input(h, id,
                      IF same THEN DictSet(child, names[i], r.value) ELSE child,
                      same, names, i + 1)
             ELSE child

\* Object.validate: the input object after the call
Object_input_after(h, id, value) ==
    IF ~Type_validate(h, id, value).ok \/ h[id].required \ DictKeys(value) # {}
    THEN value
    ELSE LET result == shallow_copy(value)
             p == Object_properties_input(h, id, value, result.same, 1)
             additional_properties == AdditionalProperties(h[id], p.input)
         IN  IF p.raised \/ h[id].additional \in {"True", "False"}
                \/ additional_properties = <<>>
             THEN p.input
             ELSE IF h[id].additional = "REMOVE"
             THEN IF result.same THEN DictDelAll(p.input, additional_properties)
                  ELSE p.input
             ELSE Object_additional_input(h, id, p.input, result.same,
                                          additional_properties, 1)

\* _iter_validated_items of the sequence validators: the elements of the
\* input after the calls made on them, element i going to children[i]; the
\* first rejection ends the call
RECURSIVE elements_after(_, _, _, _)
elements_after(h, children, e, i) ==
    IF i > Len(e) \/ i > Len(children) THEN e
    ELSE LET e1 == [e EXCEPT ![i] = input_after(h, children[i], e[i])] IN
         IF validate(h, children[i], e[i]).ok
         THEN elements_after(h, children, e1, i + 1)
         ELSE e1

\* Mapping._iter_validated_items: the entries of the input after the calls
\* made on their values (the keys are strings)
RECURSIVE entries_after(_, _, _, _)
entries_after(h, id, e, i) ==
    IF i > Len(e) THEN e
    ELSE LET vv == h[id].validators[2]
             kv == h[id].validators[1]
             e1 == IF vv = 0 THEN e
                   ELSE [e EXCEPT ![i] = Entry(e[i].k, input_after(h, vv, e[i].v))]
         IN  IF \/ vv # 0 /\ ~validate(h, vv, e[i].v).ok
                \/ kv # 0 /\ ~validate(h, kv, VStr(e[i].k)).ok
             THEN e1
             ELSE entries_after(h, id, e1, i + 1)

\* a composite's children from position i on, each given the input object
\* as long as the one before returned it (AnyOf: until one accepts, AllOf
\* and ChainOf: until one rejects)
RECURSIVE Composite_input_after(_, _, _, _)
Composite_input_after(h, id, input, i) ==
    IF i > Len(h[id].validators) THEN input
    ELSE LET r == validate(h, h[id].validators[i], input)
             after == input_after(h, h[id].validators[i], input)
         IN  IF h[id].cls = "AnyOf"
             THEN IF r.ok \/ r.exception # "ValidationError" THEN after
                  ELSE Composite_input_after(h, id, after, i + 1)
             ELSE IF ~r.ok THEN after
             ELSE IF h[id].cls = "ChainOf" /\ ~returns_input(h, h[id].validators[i], input)
             THEN after
             ELSE Composite_input_after(h, id, after, i + 1)

\* the content of the object `value` after validator.validate(value)
input_after(h, id, value) ==
    CASE h[id].cls = "Object" -> Object_input_after(h, id, value)
      [] h[id].cls = "Mapping" ->
            IF ~Type_validate(h, id, value).ok THEN value
            ELSE [value EXCEPT !.e = entries_after(h, id, value.e, 1)]
      [] h[id].cls = "HomogeneousSequence" ->
            IF \/ ~Type_validate(h, id, value).ok
               \/ h[id].min_length # NoLength /\ Len(value.e) < h[id].min_length
               \/ h[id].max_length # NoLength /\ Len(value.e) > h[id].max_length
               \/ h[id].validators = <<>>
            THEN value
            ELSE [value EXCEPT !.e = elements_after(h,
                                        [i \in 1..Len(value.e) |-> h[id].validators[1]],
                                        value.e, 1)]
      [] h[id].cls = "HeterogeneousSequence" ->
            IF ~Type_validate(h, id, value).ok \/ Len(value.e) # Len(h[id].validators)
            THEN value
            ELSE [value EXCEPT !.e = elements_after(h, h[id].validators, value.e, 1)]
      [] h[id].cls \in {"AnyOf", "AllOf", "ChainOf"} -> Composite_input_after(h, id, value, 1)
      [] h[id].cls = "Nullable" -> input_after(h, h[id].validators[1], value)
      [] OTHER -> value

\* Validator.is_valid catching every exception (a faulty variant)
is_valid_catch_all(h, id, value) ==
    LET r == validate(h, id, value) IN Accept(VBool(r.ok), r.calls)

\* Validator.is_valid: True, False, or the exception it lets through
is_valid(h, id, value) ==
    LET r == validate(h, id, value) IN
    IF r.ok THEN Accept(VBool(TRUE), r.calls)
    ELSE IF r.exception = "ValidationError" THEN Accept(VBool(FALSE), r.calls)
    ELSE r

(***************************************************************************)
(* The caller.  Before any parse the caller has built some validator       *)
(* instances (constructors take raw, unresolved schemas).                  *)
(***************************************************************************)
\* one AnyOf instance wrapped by two Nullables with different defaults
Shared ==
    << Composite("AnyOf", <<SName("integer")>>),
       Nullable(SInst(1), VInt(1)),
       Nullable(SInst(1), VFn(2)) >>

\* a Nullable of a leaf, a Nullable of a schema that itself accepts None, and
\* a composite over a name the caller registers
Nested ==
    << Nullable(SName("integer"), VInt(1)),
       Nullable(SInst(1), VInt(2)),
       Composite("AnyOf", <<SName("x")>>) >>

\* composites with an unresolvable, resp. a non-instantiable, sub-schema, and
\* a leaf
Broken ==
    << Composite("AnyOf", <<SName("integer"), SName("foo")>>),
       Composite("AllOf", <<SClass("Pattern")>>),
       Validator("Integer") >>

\* the schemas the caller hands to parse, besides the instances it holds
Literals ==
    { SName("integer"), SName("x"), SName("foo"), SClass("Integer"),
      SClass("Pattern"), SNative("int"), SJunk,
      SList(<<SName("foo")>>),
      SDict(<<Key("p")>>, <<SName("integer")>>) }

NoResult == Accept(UNDEFINED, <<>>)

Last(op, c, obj, name, error, id, value, result) ==
    [op |-> op, ctx |-> c, obj |-> obj, name |-> name, error |-> error,
     id |-> id, value |-> value, result |-> result, text |-> ""]

\* `val_context.validators_factories[key] = factory` for a key not yet there: a
\* dict keeps insertion order, the new factory comes last
SetFactory(factories, factory) == Append(factories, factory)

\* the caller made the two contexts and then gave context B a second, stricter
\* ObjectFactory under a key of its own
InitContexts ==
    /\ named_validators =
          [c \in Contexts |-> IF c = "A" THEN make_default_validation_context.named_validators
                              ELSE make_json_validation_context.named_validators]
    /\ validators_factories =
          [c \in Contexts |->
              IF c = "A" THEN make_default_validation_context.validators_factories
              ELSE SetFactory(make_json_validation_context.validators_factories,
                              ObjectFactory("StrictObject", "False", FALSE))]
    /\ last = Last("init", NoContext, SNoSchema, "", "", 0, UNDEFINED, NoResult)

Init == heap \in {Shared, Nested} /\ InitContexts /\ err = NoError

\* context c's parse(obj), called by the caller
Parse(c, obj) ==
    LET r == parse(State(heap, named_validators, validators_factories), c, obj) IN
    /\ Len(r.st.heap) <= MaxObj
    /\ heap' = r.st.heap
    /\ named_validators' = r.st.named_validators
    /\ last' = Last("parse", c, obj, "", r.error, r.id, UNDEFINED, NoResult)
    /\ UNCHANGED <<validators_factories, err>>

\* ValidationContext.register without the isinstance check (a faulty variant)
register_unchecked(nv, c, name, validator) ==
    IF validator.t = "inst"
    THEN [nv |-> [nv EXCEPT ![c][name] = InstEntry(validator.id)], error |-> ""]
    ELSE [nv |-> [nv EXCEPT ![c][name] = ClassEntry(validator.s)], error |-> ""]

\* ValidationContext.register
register(nv, c, name, validator) ==
    IF validator.t # "inst"
    THEN [nv |-> nv, error |-> "TypeError"]
    ELSE [nv |-> [nv EXCEPT ![c][name] = InstEntry(validator.id)], error |-> ""]

\* context c's register(name, validator), called by the caller
Register(c, name, validator) ==
    LET r == register(named_validators, c, name, validator) IN
    /\ named_validators' = r.nv
    /\ last' = Last("register", c, validator, name, r.error, 0, UNDEFINED, NoResult)
    /\ UNCHANGED <<heap, validators_factories, err>>

\* a validator some parse has returned: bound, no sub-schema left to resolve
Finalized(v) == v.val_context # NoContext /\ v.schemas = <<>>

\* validator.validate(value), called by the caller on a parsed validator
Validate(id, value) ==
    /\ Finalized(heap[id])
    /\ last' = Last("validate", heap[id].val_context, SInst(id), "", "", id, value,
                    validate(heap, id, value))
    /\ UNCHANGED <<heap, named_validators, validators_factories, err>>

RECURSIVE Mentions(_, _, _, _)
\* can resolving schema obj (in any context) look up `name`?  The caller never
\* registers a validator under a name its own unresolved schemas lead to: that
\* parse would recurse until the interpreter's recursion limit.
Mentions(h, nv, obj, name) ==
    CASE obj.t = "name" ->
            \/ obj.s = name
            \/ /\ obj.s \in RegNames
               /\ \E c \in Contexts :
                     /\ nv[c][obj.s].k = "inst"
                     /\ Mentions(h, nv, SInst(nv[c][obj.s].id), name)
      [] obj.t = "inst" -> /\ h[obj.id].hasSchemas
                           /\ \E i \in 1..Len(h[obj.id].schemas) :
                                  Mentions(h, nv, h[obj.id].schemas[i], name)
      [] OTHER -> \E i \in 1..Len(obj.sub) : Mentions(h, nv, obj.sub[i], name)

\* the values the caller validates
Values == {VNone, VInt(0), VStr("a")}

\* the instances the caller built itself and still holds
Held == {SInst(i) : i \in 1..Len(Shared)}

Next ==
    \/ \E c \in Contexts, obj \in Held \cup {SName("x")} : Parse(c, obj)
    \/ \E c \in Contexts, validator \in {SInst(1), SInst(2)} :
          ~Mentions(heap, named_validators, validator, "x") /\ Register(c, "x", validator)
    \/ \E obj \in Held, value \in Values : Validate(obj.id, value)

Spec == Init /\ [][Next]_vars

(***************************************************************************)
(* Resolution of names, classes and literals: the caller holds composites  *)
(* whose sub-schemas cannot be resolved and a leaf, and parses every kind  *)
(* of schema in both contexts.                                             *)
(***************************************************************************)
InitResolve == heap = Broken /\ InitContexts /\ err = NoError

\* the number of validator instances there are once context c has parsed obj
SizeAfter(c, obj) ==
    Len(parse(State(heap, named_validators, validators_factories), c, obj).st.heap)

\* the schemas that resolve in neither context, and those that make a new
\* validator on every parse, are parsed in context A; the dict literal, which
\* two of its factories accept, in context B
NextResolve ==
    \/ \E c \in Contexts, obj \in {SName("integer"), SName("x")} \cup Held :
          SizeAfter(c, obj) <= MaxResolve /\ Parse(c, obj)
    \/ \E obj \in Literals \ {SName("integer"), SName("x")} :
          /\ SizeAfter("A", obj) <= MaxResolve
          /\ obj.t # "dict"
          /\ Parse("A", obj)
    \/ \E obj \in Literals :
          /\ SizeAfter("B", obj) <= MaxResolve
          /\ obj.t = "dict"
          /\ Parse("B", obj)
    \/ \E validator \in {SInst(1), SInst(3), SClass("Integer"), SNative("int")} :
          ~Mentions(heap, named_validators, validator, "x") /\ Register("A", "x", validator)

SpecResolve == InitResolve /\ [][NextResolve]_vars

(***************************************************************************)
(* Validation of values: the caller parses one schema, a literal or an     *)
(* instance it built, and validates values with the validator returned.    *)
(***************************************************************************)
\* an Object whose additional properties have a schema, and a Mapping
Built ==
    << [Object(<<Key("foo"), Optional("bar", UNDEFINED)>>,
               <<SName("number"), SName("string")>>, "schema", FALSE)
          EXCEPT !.additional_schema = SList(<<SName("integer")>>)],
       Mapping(SName("string"), SList(<<SName("integer")>>)) >>

\* {"foo": "number", Optional("bar"): ["integer"]}
FooBar ==
    SDict(<<Key("foo"), Optional("bar", UNDEFINED)>>,
          <<SName("number"), SList(<<SName("integer")>>)>>)

\* {"foo": "number", Optional("bar"): "integer", "baz": "string"}
FooBarBaz ==
    SDict(<<Key("foo"), Optional("bar", UNDEFINED), Key("baz")>>,
          <<SName("number"), SName("integer"), SName("string")>>)

\* [{"foo": ["integer"]}]
Deep == SList(<<SDict(<<Key("foo")>>, <<SList(<<SName("integer")>>)>>)>>)

ValidateSchemas == {FooBar, FooBarBaz, Deep, SInst(1), SInst(2)}

OneTwoThree == VList(<<VInt(1), VStr("2"), VInt(3)>>)

ValidateValues ==
    { VInt(42), VDict(<<>>), VList(<<>>), VList(<<VInt(1)>>),
      VDict(<<Entry("foo", VInt(3))>>),
      VDict(<<Entry("foo", VStr("3"))>>),
      VDict(<<Entry("foo", VInt(3)), Entry("bar", VNone)>>),
      VDict(<<Entry("foo", VInt(3)), Entry("bar", OneTwoThree)>>),
      VDict(<<Entry("foo", VInt(3)), Entry("bar", VList(<<VInt(1), VInt(2)>>))>>),
      VDict(<<Entry("foo", VList(<<VInt(1)>>)), Entry("bar", OneTwoThree)>>),
      VDict(<<Entry("bar", OneTwoThree)>>),
      VDict(<<Entry("bar", VStr("x"))>>),
      VDict(<<Entry("baz", VStr("yo"))>>),
      VDict(<<Entry("foo", VInt(3)), Entry("baz", VStr("yo"))>>),
      VDict(<<Entry("foo", VInt(3)), Entry("baz", VStr("yo")), Entry("bar", VInt(1))>>),
      VDict(<<Entry("foo", VInt(3)), Entry("baz", VInt(1)), Entry("bar", VStr("x"))>>),
      VDict(<<Entry("foo", VInt(3)), Entry("extra", OneTwoThree)>>),
      VDict(<<Entry("foo", VInt(3)), Entry("bar", VStr("s")), Entry("extra", VList(<<VInt(1)>>))>>),
      VList(<<VDict(<<>>)>>),
      VList(<<VDict(<<Entry("foo", VList(<<VInt(1)>>))>>),
              VDict(<<Entry("foo", OneTwoThree)>>)>>),
      VList(<<VDict(<<Entry("foo", VInt(1))>>)>>) }

InitValidate == heap = Built /\ InitContexts /\ err = NoError

NextValidate ==
    \/ \E c \in Contexts, obj \in ValidateSchemas : last.op = "init" /\ Parse(c, obj)
    \/ \E value \in ValidateValues :
          /\ last.op \in {"parse", "validate"}
          /\ last.error = ""
          /\ Validate(last.id, value)

SpecValidate == InitValidate /\ [][NextValidate]_vars

(***************************************************************************)
(* The text of a ValidationError: an error is raised with or without a     *)
(* value, the enclosing containers add path items, the caller renders it.  *)
(***************************************************************************)
PathItems == {VStr("bar"), VStr("foo"), VInt(1), VInt(0)}

InitText ==
    /\ heap = <<>>
    /\ InitContexts
    /\ err \in {ValidationError(c, "must be integer", value) :
                  c \in Contexts, value \in {UNDEFINED, VInt(42), VStr("2"), VNone}}

\* ex.add_error_path_item(item), by an enclosing container
AddErrorPathItem(item) ==
    /\ Len(err.error_path_items) < MaxPath
    /\ err' = add_error_path_item(err, item)
    /\ last' = Last("add_error_path_item", err.val_context, SNoSchema, "", "", 0,
                    item, NoResult)
    /\ UNCHANGED <<heap, named_validators, validators_factories>>

\* ex.to_text(), by the caller
ToText ==
    /\ last' = [Last("to_text", err.val_context, SNoSchema, "", "", 0, UNDEFINED,
                     NoResult) EXCEPT !.text = to_text(err)]
    /\ UNCHANGED <<heap, named_validators, validators_factories, err>>

NextText ==
    \/ \E item \in PathItems : AddErrorPathItem(item)
    \/ ToText

SpecText == InitText /\ [][NextText]_vars
(***************************************************************************)
(* Object validation: the caller builds one Object, with every choice of   *)
(* `additional` and `ignore_optional_errors`, parses it and validates      *)
(* values with it.                                                         *)
(***************************************************************************)
\* {Optional("bar"): "integer", "foo": "number", Optional("baz", 7): "integer",
\*  Optional("qux", lambda: 2): "integer"}, and {"foo": "number"}
Properties ==
    { [keys |-> <<Optional("bar", UNDEFINED), Key("foo"), Optional("baz", VInt(7)),
                  Optional("qux", VFn(2))>>,
       schemas |-> <<SName("integer"), SName("number"), SName("integer"),
                     SName("integer")>>],
      [keys |-> <<Key("foo")>>, schemas |-> <<SName("number")>>] }

\* additional: True, False, REMOVE or the schema "integer"
Additionals == {"True", "False", "REMOVE", "schema"}

Objects ==
    { [Object(p.keys, p.schemas, additional, ignore_optional_errors)
          EXCEPT !.additional_schema =
                     IF additional = "schema" THEN SName("integer") ELSE SNoSchema] :
      p \in Properties, additional \in Additionals, ignore_optional_errors \in BOOLEAN }

ObjectValues ==
    { VInt(42), VDict(<<>>),
      VDict(<<Entry("foo", VInt(1))>>),
      VDict(<<Entry("foo", VStr("s"))>>),
      VDict(<<Entry("foo", VBool(TRUE))>>),
      VDict(<<Entry("foo", VInt(1)), Entry("bar", VInt(2))>>),
      VDict(<<Entry("foo", VInt(1)), Entry("bar", VStr("x"))>>),
      VDict(<<Entry("foo", VInt(1)), Entry("baz", VStr("x"))>>),
      VDict(<<Entry("foo", VInt(1)), Entry("baz", VInt(3)), Entry("qux", VInt(4))>>),
      VDict(<<Entry("foo", VInt(1)), Entry("extra", VBool(TRUE))>>),
      VDict(<<Entry("foo", VInt(1)), Entry("extra", VInt(5))>>),
      VDict(<<Entry("extra", VInt(5)), Entry("foo", VInt(1)), Entry("bar", VStr("x")),
              Entry("more", VStr("y"))>>),
      VDict(<<Entry("foo", VInt(1)), Entry("bar", VStr("x")), Entry("extra", VInt(5))>>),
      VDict(<<Entry("foo", VStr("s")), Entry("bar", VStr("x"))>>),
      VDict(<<Entry("bar", VStr("x")), Entry("foo", VStr("s"))>>),
      VDict(<<Entry("foo", VInt(1)), Entry("bar", VStr("x")), Entry("baz", VStr("y"))>>),
      VDict(<<Entry("bar", VStr("x")), Entry("extra", VInt(5))>>),
      VDict(<<Entry("foo", VStr("s")), Entry("extra", VInt(5))>>) }

InitObject == heap \in {<<o>> : o \in Objects} /\ InitContexts /\ err = NoError

NextObject ==
    \/ \E c \in Contexts : last.op = "init" /\ Parse(c, SInst(1))
    \/ \E value \in ObjectValues : Validate(1, value)

SpecObject == InitObject /\ [][NextObject]_vars

(***************************************************************************)
(* Composites: the caller builds AnyOf, AllOf and ChainOf instances over   *)
(* adapting and checking children, parses them and calls validate and      *)
(* is_valid on every validator it has.                                     *)
(***************************************************************************)
\* ChainOf(AdaptTo(int), Condition(lambda x: x > 0),
\* AdaptBy(datetime.utcfromtimestamp)), AllOf over the same three children,
\* and AllOf("number", the same Condition, the same AdaptBy)
Pipeline ==
    << AdaptTo("int", {"Exception"}, FALSE),
       Condition("gt0", {"Exception"}),
       AdaptBy("utcfromtimestamp", {"Exception"}),
       Composite("ChainOf", <<SInst(1), SInst(2), SInst(3)>>),
       Composite("AllOf", <<SInst(1), SInst(2), SInst(3)>>),
       Composite("AllOf", <<SName("number"), SInst(2), SInst(3)>>) >>

\* AnyOf(AdaptBy(datetime.utcfromtimestamp), "integer") and the same children
\* the other way round, AnyOf("number", ["number"]), and {"baz": that AnyOf}
Alternatives ==
    << AdaptBy("utcfromtimestamp", {"Exception"}),
       Composite("AnyOf", <<SInst(1), SName("integer")>>),
       Composite("AnyOf", <<SName("integer"), SInst(1)>>),
       Composite("AnyOf", <<SName("number"), SList(<<SName("number")>>)>>),
       Object(<<Key("baz")>>, <<SInst(4)>>, "True", FALSE) >>

\* a Condition with traps=None and an AdaptBy with traps=ValueError, under an
\* AnyOf, a ChainOf and an AllOf
Untrapped ==
    << Condition("gt0", {}),
       AdaptBy("utcfromtimestamp", {"ValueError"}),
       Composite("AnyOf", <<SInst(1), SName("integer")>>),
       Composite("ChainOf", <<SInst(2), SInst(1)>>),
       Composite("AllOf", <<SName("integer"), SInst(1)>>) >>

CompositeValues ==
    { VInt(1373475820), VInt(0 - 1373475820), VInt(0), VBool(TRUE),
      VStr("1373475820"), VStr("nan"), VNone,
      VList(<<VStr("x")>>), VList(<<VInt(1)>>),
      VDict(<<Entry("baz", VList(<<VStr("x")>>))>>),
      VDict(<<Entry("baz", VStr("23"))>>),
      VDict(<<Entry("baz", VInt(5))>>) }

InitComposite ==
    heap \in {Pipeline, Alternatives, Untrapped} /\ InitContexts /\ err = NoError

\* validator.is_valid(value), called by the caller on a parsed validator
IsValid(id, value) ==
    /\ Finalized(heap[id])
    /\ last' = Last("is_valid", heap[id].val_context, SInst(id), "", "", id, value,
                    is_valid(heap, id, value))
    /\ UNCHANGED <<heap, named_validators, validators_factories, err>>

\* the caller works with one context: it parses the composites it built, in
\* the order it built them (their children are bound and parsed with them)
NextComposite ==
    \/ \E c \in Contexts, id \in 1..Len(heap) :
          /\ last.op = "init" \/ last.ctx = c
          /\ heap[id].hasSchemas
          /\ \A j \in 1..(id - 1) : ~heap[j].hasSchemas
          /\ Parse(c, SInst(id))
    \/ \E id \in 1..Len(heap), value \in CompositeValues : Validate(id, value)
    \/ \E id \in 1..Len(heap), value \in CompositeValues : IsValid(id, value)

SpecComposite == InitComposite /\ [][NextComposite]_vars

(***************************************************************************)
(* Nullable: the caller builds Nullables over an AnyOf instance, over a    *)
(* name, over another Nullable and over the class AnyOf, parses them and   *)
(* validates values.                                                       *)
(***************************************************************************)
\* Nullable(AnyOf("integer", "string"))
OverAnyOf ==
    << Composite("AnyOf", <<SName("integer"), SName("string")>>),
       Nullable(SInst(1), VNone) >>

\* Nullable("integer", 1), Nullable(that Nullable), Nullable(AnyOf)
OverOthers ==
    << Nullable(SName("integer"), VInt(1)),
       Nullable(SInst(1), VNone),
       Nullable(SClass("AnyOf"), VNone) >>

InitNullable == heap \in {OverAnyOf, OverOthers} /\ InitContexts /\ err = NoError

NextNullable ==
    \/ \E c \in Contexts, id \in 1..Len(heap) :
          heap[id].hasSchemas /\ Parse(c, SInst(id))
    \/ \E id \in 1..Len(heap), value \in Values : Validate(id, value)

SpecNullable == InitNullable /\ [][NextNullable]_vars

(***************************************************************************)
(* Adaptors: the caller builds AdaptBy validators over int and             *)
(* datetime.utcfromtimestamp with different traps, binds them to a context *)
(* and calls validate and is_valid on them.                                *)
(***************************************************************************)
\* AdaptBy(int, traps=ValueError), AdaptBy(int, traps=()),
\* AdaptBy(int, traps=(ValueError, TypeError)), AdaptBy(int) and
\* AdaptBy(datetime.utcfromtimestamp, traps=ValueError)
Adaptors ==
    << AdaptBy("int", {"ValueError"}),
       AdaptBy("int", {}),
       AdaptBy("int", {"ValueError", "TypeError"}),
       AdaptBy("int", {"Exception"}),
       AdaptBy("utcfromtimestamp", {"ValueError"}) >>

AdaptValues ==
    { VInt(12), VBool(TRUE), VStr("1373475820"), VStr("0"), VStr("nan"), VStr("12b"),
      VNone, VList(<<>>), VDict(<<>>) }

InitAdapt == heap = Adaptors /\ InitContexts /\ err = NoError

\* the caller works with one context and parses the validators it built in
\* the order it built them
NextAdapt ==
    \/ \E c \in Contexts, id \in 1..Len(heap) :
          /\ last.op = "init" \/ last.ctx = c
          /\ heap[id].val_context = NoContext
          /\ \A j \in 1..(id - 1) : heap[j].val_context # NoContext
          /\ Parse(c, SInst(id))
    \/ \E id \in 1..Len(heap), value \in AdaptValues : Validate(id, value)
    \/ \E id \in 1..Len(heap), value \in AdaptValues : IsValid(id, value)

SpecAdapt == InitAdapt /\ [][NextAdapt]_vars

(***************************************************************************)
(* Threads: two threads share a parsed validator tree and call validate on *)
(* it concurrently.  A call's frames are entered one validator after the   *)
(* other, and the threads interleave between any two of them; each thread  *)
(* keeps its own frames (its value, how far it has got, its result).       *)
(* `last` holds what every thread is doing.                                *)
(***************************************************************************)
Threads == {"t1", "t2"}

\* {"foo": AnyOf(AdaptBy(utcfromtimestamp), "integer"),
\*  Optional("bar", lambda: 2): "integer"}, additional=REMOVE,
\* ignore_optional_errors=True
Tree ==
    << AdaptBy("utcfromtimestamp", {"Exception"}),
       Composite("AnyOf", <<SInst(1), SName("integer")>>),
       Object(<<Key("foo"), Optional("bar", VFn(2))>>,
              <<SInst(2), SName("integer")>>, "REMOVE", TRUE) >>

ThreadValues ==
    { VInt(5), VStr("x"),
      VDict(<<Entry("foo", VInt(5)), Entry("extra", VInt(1))>>),
      VDict(<<Entry("foo", VInt(5)), Entry("bar", VStr("x"))>>),
      VDict(<<Entry("foo", VStr("x"))>>) }

Idle == [pc |-> "idle", id |-> 0, value |-> UNDEFINED, entered |-> 0, result |-> NoResult]

\* what the threads are doing; none has called anything before the first call
Running == IF last.op = "threads" THEN last.threads ELSE [t \in Threads |-> Idle]

\* an AnyOf whose validate turns its children round (a faulty variant)
validate_writes_reordering(h, id) ==
    IF h[id].cls = "AnyOf" THEN [h EXCEPT ![id].validators = Reverse(@)] ELSE h

\* the validator state a frame of validator.validate leaves behind: validate
\* assigns no attribute of a validator and calls no method that does
validate_writes(h, id) == h

InitThreads == heap = Tree /\ InitContexts /\ err = NoError

Threaded(threads) ==
    [op |-> "threads", ctx |-> last.ctx, obj |-> SNoSchema, name |-> "", error |-> "",
     id |-> 0, value |-> UNDEFINED, result |-> NoResult, text |-> "",
     threads |-> threads]

\* thread t calls validator.validate(value)
ThreadCall(t, id, value) ==
    /\ last.op # "init"
    /\ Finalized(heap[id])
    /\ Running[t].pc # "running"
    /\ last' = Threaded([Running EXCEPT ![t] =
                  [pc |-> "running", id |-> id, value |-> value, entered |-> 0,
                   result |-> NoResult]])
    /\ UNCHANGED <<heap, named_validators, validators_factories, err>>

\* thread t enters the frame of the next validator its call reaches
ThreadStep(t) ==
    LET th == Running[t]
        calls == validate(heap, th.id, th.value).calls
    IN  /\ th.pc = "running"
        /\ th.entered < Len(calls)
        /\ heap' = validate_writes(heap, calls[th.entered + 1])
        /\ last' = Threaded([Running EXCEPT ![t].entered = @ + 1])
        /\ UNCHANGED <<named_validators, validators_factories, err>>

\* thread t's call returns or raises
ThreadReturn(t) ==
    LET th == Running[t]
        r == validate(heap, th.id, th.value)
    IN  /\ th.pc = "running"
        /\ th.entered >= Len(r.calls)
        /\ last' = Threaded([Running EXCEPT ![t].pc = "done", ![t].result = r])
        /\ UNCHANGED <<heap, named_validators, validators_factories, err>>

NextThreads ==
    \/ \E c \in Contexts : last.op = "init" /\ Parse(c, SInst(3))
    \/ \E t \in Threads, id \in {2, 3}, value \in ThreadValues : ThreadCall(t, id, value)
    \/ \E t \in Threads : ThreadStep(t)
    \/ \E t \in Threads : ThreadReturn(t)

SpecThreads == InitThreads /\ [][NextThreads]_vars

(***************************************************************************)
(* Presets: one caller works with the default context, another with the    *)
(* JSON preset; the two contexts differ in their type names and their      *)
(* representation function only.  Each caller parses one schema and        *)
(* validates values with the validator it got.  `last` holds what each     *)
(* caller has done.                                                        *)
(***************************************************************************)
\* "integer", ["number"], {"foo": "number", Optional("bar"): ["integer"]},
\* and the Nullable the caller built
PresetSchemas == {SName("integer"), SList(<<SName("number")>>), FooBar, SInst(1)}

PresetValues ==
    { VInt(3), VBool(TRUE), VStr("3"), VNone, VList(<<VInt(1)>>), VList(<<VStr("x")>>),
      VDict(<<Entry("foo", VInt(3))>>),
      VDict(<<Entry("foo", VInt(3)), Entry("bar", OneTwoThree)>>),
      VDict(<<Entry("bar", VList(<<>>))>>) }

NotParsed == [obj |-> SNoSchema, error |-> "", id |-> 0, value |-> UNDEFINED,
              result |-> NoResult]

\* what the caller of each context has done
Runs == IF last.op = "presets" THEN last.runs ELSE [c \in Contexts |-> NotParsed]

Preset(c, runs) ==
    [op |-> "presets", ctx |-> c, obj |-> SNoSchema, name |-> "", error |-> "",
     id |-> 0, value |-> UNDEFINED, result |-> NoResult, text |-> "", runs |-> runs]

\* the two contexts as their constructors return them
InitPresets ==
    /\ heap = <<Nullable(SName("string"), VInt(0))>>
    /\ named_validators =
          [c \in Contexts |-> IF c = "A" THEN make_default_validation_context.named_validators
                              ELSE make_json_validation_context.named_validators]
    /\ validators_factories =
          [c \in Contexts |-> IF c = "A"
                              THEN make_default_validation_context.validators_factories
                              ELSE make_json_validation_context.validators_factories]
    /\ last = Last("init", NoContext, SNoSchema, "", "", 0, UNDEFINED, NoResult)
    /\ err = NoError

\* the caller of context c parses obj
PresetParse(c, obj) ==
    LET r == parse(State(heap, named_validators, validators_factories), c, obj) IN
    /\ Runs[c].obj = SNoSchema
    /\ heap' = r.st.heap
    /\ named_validators' = r.st.named_validators
    /\ last' = Preset(c, [Runs EXCEPT ![c] = [NotParsed EXCEPT !.obj = obj,
                                                               !.error = r.error,
                                                               !.id = r.id]])
    /\ UNCHANGED <<validators_factories, err>>

\* the caller of context c validates value with the validator it got
PresetValidate(c, value) ==
    /\ Runs[c].obj # SNoSchema
    /\ Runs[c].error = ""
    /\ last' = Preset(c, [Runs EXCEPT ![c].value = value,
                                      ![c].result = validate(heap, Runs[c].id, value)])
    /\ UNCHANGED <<heap, named_validators, validators_factories, err>>

NextPresets ==
    \/ \E c \in Contexts, obj \in PresetSchemas : PresetParse(c, obj)
    \/ \E c \in Contexts, value \in PresetValues : PresetValidate(c, value)

SpecPresets == InitPresets /\ [][NextPresets]_vars

(***************************************************************************)
(* Options: the caller holds an AnyOf over a name and a literal, and two   *)
(* leaves it registers under that name; it parses the AnyOf (directly, by  *)
(* name, in either context), and between the parses it registers the name  *)
(* anew and changes the options of context A's ObjectFactory.              *)
(***************************************************************************)
\* {Optional("q"): "integer"}
Inner == SDict(<<Optional("q", UNDEFINED)>>, <<SName("integer")>>)

\* AnyOf("x", {Optional("q"): "integer"}), Integer(), String()
Holdings ==
    << Composite("AnyOf", <<SName("x"), Inner>>), Validator("Integer"), Validator("String") >>

\* the option pairs the caller sets: the constructor's defaults, no additional
\* properties with optional errors ignored, additional properties removed
OptionPairs ==
    { <<"True", FALSE>>, <<"False", TRUE>>, <<"REMOVE", FALSE>>, <<"REMOVE", TRUE>> }

InitOptions == heap = Holdings /\ InitContexts /\ err = NoError

\* the position of the factory registered under key
FactoryAt(factories, key) == CHOOSE i \in 1..Len(factories) : factories[i].key = key

\* val_context.validators_factories['Object'].additional_properties = ap, and
\* .ignore_optional_property_errors = ig
SetOptions(c, ap, ig) ==
    LET i == FactoryAt(validators_factories[c], "Object") IN
    /\ validators_factories[c][i] # ObjectFactory("Object", ap, ig)
    /\ validators_factories' =
          [validators_factories EXCEPT ![c][i] = ObjectFactory("Object", ap, ig)]
    /\ last' = Last("options", c, SNoSchema, "", "", 0, UNDEFINED, NoResult)
    /\ UNCHANGED <<heap, named_validators, err>>

\* the caller parses the AnyOf it holds in either context, directly or by the
\* name it registered it under; it registers under "x" one of the instances
\* it holds, once that instance's own schemas no longer lead to "x"
NextOptions ==
    \/ \E c \in Contexts, obj \in {SInst(1), SName("x")} : Parse(c, obj)
    \/ \E validator \in {SInst(1), SInst(2), SInst(3)} :
          /\ ~Mentions(heap, named_validators, validator, "x")
          /\ named_validators["A"]["x"] # InstEntry(validator.id)
          /\ Register("A", "x", validator)
    \/ \E o \in OptionPairs : SetOptions("A", o[1], o[2])
    \/ \E value \in {VInt(1), VStr("x"),
                     VDict(<<Entry("q", VInt(1)), Entry("extra", VInt(1))>>)} :
          Validate(1, value)

SpecOptions == InitOptions /\ [][NextOptions]_vars

(***************************************************************************)
(* Literals: the caller parses one plain literal again and again in        *)
(* context A, changes the options of A's ObjectFactory between the parses, *)
(* and validates values with the validators it got.                        *)
(***************************************************************************)
MaxLiterals == 10

\* {"p": [{Optional("q"): "integer"}], Optional("r"): "integer"}
Plain ==
    SDict(<<Key("p"), Optional("r", UNDEFINED)>>, <<SList(<<Inner>>), SName("integer")>>)

LiteralValues ==
    { VDict(<<Entry("p", VList(<<VDict(<<Entry("q", VInt(1))>>)>>))>>),
      VDict(<<Entry("p", VList(<<VDict(<<Entry("q", VInt(1)), Entry("extra", VInt(1))>>)>>))>>),
      VDict(<<Entry("p", VList(<<VDict(<<Entry("q", VStr("x"))>>)>>))>>),
      VDict(<<Entry("p", VList(<<>>)), Entry("more", VInt(1))>>),
      VDict(<<Entry("p", VList(<<>>)), Entry("r", VStr("x"))>>) }

InitLiterals == heap = <<>> /\ InitContexts /\ err = NoError

NextLiterals ==
    \/ SizeAfter("A", Plain) <= MaxLiterals /\ Parse("A", Plain)
    \/ \E o \in OptionPairs : SetOptions("A", o[1], o[2])
    \/ \E id \in 1..Len(heap), value \in LiteralValues :
          /\ heap[id].cls = "Object"
          /\ heap[id].keys = Plain.keys
          /\ Validate(id, value)

SpecLiterals == InitLiterals /\ [][NextLiterals]_vars

(***************************************************************************)
(* Sequences: the caller holds an adaptor, sequence validators over it and *)
(* parses them and two literals; it validates lists and tuples of up to    *)
(* MaxItems elements, and values that are no sequences.                    *)
(***************************************************************************)
MaxItems == 3

\* AdaptBy(int, traps=(ValueError, TypeError)),
\* HomogeneousSequence(adaptor, 1, 2), HomogeneousSequence(None, 1, 2),
\* HeterogeneousSequence(adaptor, "string")
Sequences ==
    << AdaptBy("int", {"ValueError", "TypeError"}),
       HomogeneousSequence_lengths(<<SInst(1)>>, 1, 2),
       HomogeneousSequence_lengths(<<>>, 1, 2),
       HeterogeneousSequence(<<SInst(1), SName("string")>>) >>

\* [adaptor] and ("integer", adaptor)
SequenceLiterals == {SList(<<SInst(1)>>), STuple(<<SName("integer"), SInst(1)>>)}

Elements == {VInt(1), VStr("0"), VStr("nan")}

ElementLists == UNION {[1..n -> Elements] : n \in 0..MaxItems}

SequenceValues ==
    {VInt(5), VStr("ab"), VNone}
        \cup {VList(q) : q \in ElementLists} \cup {VTuple(q) : q \in ElementLists}

\* has the caller parsed the literal obj already?
MadeOf(obj) ==
    \E j \in (Len(Sequences) + 1)..Len(heap) :
        heap[j].cls = IF obj.t = "list" THEN "HomogeneousSequence"
                      ELSE "HeterogeneousSequence"

InitSequence == heap = Sequences /\ InitContexts /\ err = NoError

\* the caller works with one context: it parses the validators it built, in
\* the order it built them, then each literal once, and after a parse it
\* validates a value (validate changes no validator, so a second call would
\* find what the first found)
NextSequence ==
    \/ \E c \in Contexts, id \in 1..Len(Sequences) :
          /\ last.op = "init" \/ last.ctx = c
          /\ heap[id].val_context = NoContext
          /\ \A j \in 1..(id - 1) : heap[j].val_context # NoContext
          /\ Parse(c, SInst(id))
    \/ \E c \in Contexts, obj \in SequenceLiterals :
          /\ last.ctx = c
          /\ \A j \in 1..Len(Sequences) : heap[j].val_context # NoContext
          /\ ~MadeOf(obj)
          /\ Parse(c, obj)
    \/ \E id \in 1..Len(heap), value \in SequenceValues :
          /\ heap[id].cls \in {"HomogeneousSequence", "HeterogeneousSequence"}
          /\ \A j \in 1..Len(Sequences) : heap[j].val_context # NoContext
          /\ last.op = "parse"
          /\ Validate(id, value)

SpecSequence == InitSequence /\ [][NextSequence]_vars

(***************************************************************************)
(* Mappings: the caller holds a key adaptor, a value adaptor and the four  *)
(* Mappings with and without them, and validates dicts and OrderedDicts of *)
(* up to MaxEntries entries, and values that are no mappings.              *)
(***************************************************************************)
MaxEntries == 2

\* AdaptBy(lower_word, traps=ValueError), AdaptBy(int, traps=(ValueError,
\* TypeError)), Mapping(keys, values), Mapping(None, values),
\* Mapping(keys), Mapping()
Mappings ==
    << AdaptBy("lower_word", {"ValueError"}),
       AdaptBy("int", {"ValueError", "TypeError"}),
       Mapping(SInst(1), SInst(2)),
       Mapping(SNoSchema, SInst(2)),
       Mapping(SInst(1), SNoSchema),
       Mapping(SNoSchema, SNoSchema) >>

MappingKeys == {"Foo", "foo", "x1"}
MappingItems == {VStr("0"), VStr("-3"), VStr("nan")}

\* the entry lists of up to MaxEntries entries with distinct keys
EntryLists ==
    UNION { {q \in [1..n -> [k : MappingKeys, v : MappingItems]] :
                \A i, j \in 1..n : i # j => q[i].k # q[j].k} : n \in 0..MaxEntries }

MappingValues ==
    {VInt(5), VStr("ab"), VList(<<>>)}
        \cup {VDict(q) : q \in EntryLists} \cup {VOrderedDict(q) : q \in EntryLists}

InitMapping == heap = Mappings /\ InitContexts /\ err = NoError

\* the caller works with one context: it parses the validators it built, in
\* the order it built them, and after a parse it validates a value
NextMapping ==
    \/ \E c \in Contexts, id \in 1..Len(Mappings) :
          /\ last.op = "init" \/ last.ctx = c
          /\ heap[id].val_context = NoContext
          /\ \A j \in 1..(id - 1) : heap[j].val_context # NoContext
          /\ Parse(c, SInst(id))
    \/ \E id \in 1..Len(heap), value \in MappingValues :
          /\ heap[id].cls = "Mapping"
          /\ last.op = "parse"
          /\ Validate(id, value)

SpecMapping == InitMapping /\ [][NextMapping]_vars

(***************************************************************************)
(* Inputs: the caller holds container validators that remove, drop, inject *)
(* and coerce, nested in one another, and validates containers it keeps a  *)
(* reference to; `last` holds the content of the input object after the    *)
(* call.                                                                   *)
(***************************************************************************)
\* AdaptBy(int, traps=(ValueError, TypeError)),
\* Object({"q": adaptor}, additional=REMOVE),
\* Object({"foo": adaptor, Optional("bar", lambda: 2): adaptor,
\*         Optional("in"): inner}, additional=REMOVE, ignore_optional_errors=True),
\* Mapping(None, inner), HomogeneousSequence(inner),
\* HeterogeneousSequence(adaptor, inner)
Containers ==
    << AdaptBy("int", {"ValueError", "TypeError"}),
       Object(<<Key("q")>>, <<SInst(1)>>, "REMOVE", FALSE),
       Object(<<Key("foo"), Optional("bar", VFn(2)), Optional("in", UNDEFINED)>>,
              <<SInst(1), SInst(1), SInst(2)>>, "REMOVE", TRUE),
       Mapping(SNoSchema, SInst(2)),
       HomogeneousSequence(<<SInst(2)>>),
       HeterogeneousSequence(<<SInst(1), SInst(2)>>) >>

InnerValues ==
    { VDict(<<Entry("q", VStr("0"))>>),
      VDict(<<Entry("q", VStr("0")), Entry("extra", VInt(1))>>),
      VDict(<<Entry("q", VStr("nan")), Entry("extra", VInt(1))>>) }

OuterValues ==
    { VDict(<<Entry("foo", VStr("0"))>>),
      VDict(<<Entry("foo", VStr("0")), Entry("bar", VStr("nan")), Entry("extra", VInt(1))>>),
      VDict(<<Entry("foo", VStr("nan")), Entry("extra", VInt(1))>>),
      VDict(<<Entry("bar", VStr("0")), Entry("extra", VInt(1))>>) }
        \cup {VDict(<<Entry("foo", VStr("0")), Entry("extra", VInt(1)), Entry("in", i)>>) :
                 i \in InnerValues}

InputValues ==
    {VInt(5)} \cup InnerValues \cup OuterValues
        \cup {VOrderedDict(<<Entry("a", i), Entry("b", j)>>) : i, j \in InnerValues}
        \cup {VList(<<i, j>>) : i, j \in InnerValues}
        \cup {VTuple(<<VStr("0"), i>>) : i \in InnerValues}

InitInput == heap = Containers /\ InitContexts /\ err = NoError

\* validator.validate(value) on an object the caller keeps a reference to
ValidateInput(id, value) ==
    /\ Finalized(heap[id])
    /\ last' = [op |-> "validate", ctx |-> heap[id].val_context, obj |-> SInst(id),
                name |-> "", error |-> "", id |-> id, value |-> value,
                result |-> validate(heap, id, value), text |-> "",
                input |-> input_after(heap, id, value)]
    /\ UNCHANGED <<heap, named_validators, validators_factories, err>>

\* the caller works with one context: it parses the validators it built, in
\* the order it built them, and after a parse it validates a value
NextInput ==
    \/ \E c \in Contexts, id \in 1..Len(Containers) :
          /\ last.op = "init" \/ last.ctx = c
          /\ heap[id].val_context = NoContext
          /\ \A j \in 1..(id - 1) : heap[j].val_context # NoContext
          /\ Parse(c, SInst(id))
    \/ \E id \in 2..Len(heap), value \in InputValues :
          /\ last.op = "parse"
          /\ ValidateInput(id, value)

SpecInput == InitInput /\ [][NextInput]_vars

(***************************************************************************)
(* Properties.                                                             *)
(***************************************************************************)
\* what a factory's result is built from, as far as a later parse keeps it
Construction(v) ==
    [cls |-> v.cls, keys |-> v.keys, required |-> v.required,
     additional |-> v.additional, accept |-> v.accept,
     ignore_optional_errors |-> v.ignore_optional_errors]

\* the last parse fell through to the factories, and several accept its schema
AmbiguousParse ==
    /\ last.op = "parse"
    /\ last.error = ""
    /\ last.obj.t \notin {"inst", "class", "name"}
    /\ Cardinality(Accepting(validators_factories[last.ctx], last.obj)) >= 2

\* C1: when two registered factories both return a validator for a schema,
\* the validator parse returns is the one made by the factory registered
\* later (the factories are tried in reverse registration order).
C1_LaterFactoryWins ==
    AmbiguousParse =>
        LET factories == validators_factories[last.ctx]
            later == factories[SetMax(Accepting(factories, last.obj))]
        IN  Construction(heap[last.id]) = Construction(FactoryApply(later, last.obj))

\* C2: once a parse has returned a validator, no later call changes its list
\* of child validators.
C2_ChildrenFixedAfterParse ==
    [][\A i \in 1..Len(heap) :
          Finalized(heap[i]) => heap'[i].validators = heap[i].validators]_vars

\* the validator the schema of the parsed Nullable id resolved to: the child
\* AnyOf itself when it is one the caller built, else the first member of the
\* AnyOf that Nullable.parse made
SchemaValidator(id) ==
    LET any == heap[id].validators[1] IN
    IF any <= Len(Shared) THEN any ELSE heap[any].validators[1]

\* C3: a parsed Nullable(schema, default) maps None to its own default
\* (default() when callable), and treats every other value as the validator
\* of schema does.
C3_NullableDefault ==
    (last.op = "validate" /\ heap[last.id].cls = "Nullable") =>
        IF last.value = VNone
        THEN /\ last.result.ok
             /\ last.result.value = ApplyDefault(heap[last.id].default)
        ELSE LET r == validate(heap, SchemaValidator(last.id), last.value) IN
             /\ last.result.ok = r.ok
             /\ r.ok => last.result.value = r.value

\* the sub-schemas validator v still has to resolve, in the order its parse
\* resolves them
Pending(v) ==
    IF ~v.hasSchemas THEN <<>>
    ELSE (IF v.additional # "schema" THEN <<>>
          ELSE IF v.additional_validator # 0 THEN <<SInst(v.additional_validator)>>
          ELSE <<v.additional_schema>>)
         \o SelectSeq(v.schemas, LAMBDA x : x # SNoSchema)

RECURSIVE Outcome(_, _, _, _, _), FirstFailure(_, _, _, _, _)

\* the first exception among the outcomes of the schemas, "" if there is none
FirstFailure(h, nv, vf, c, schemas) ==
    IF schemas = <<>> THEN ""
    ELSE LET first == Outcome(h, nv, vf, c, Head(schemas)) IN
         IF first # "" THEN first ELSE FirstFailure(h, nv, vf, c, Tail(schemas))

\* What context c's parse(obj) must end with, read off the schema and the
\* registries as they are before the call: "" (a validator is returned),
\* "SchemaError" (the first schema met that fails is no instance, no class,
\* no registered name, and no factory takes it) or "TypeError" (it is a
\* validator class whose constructor cannot be called without arguments).
\* An instance resolves its own sub-schemas in the context it is bound to.
Outcome(h, nv, vf, c, obj) ==
    LET OfInstance(id) ==
            FirstFailure(h, nv, vf,
                         IF h[id].val_context = NoContext THEN c ELSE h[id].val_context,
                         Pending(h[id]))
        OfClass(cls) == IF NeedsArguments(cls) THEN "TypeError" ELSE ""
    IN  CASE obj.t = "inst" -> OfInstance(obj.id)
          [] obj.t = "class" -> OfClass(obj.s)
          [] obj.t = "name" /\ obj.s \in RegNames /\ nv[c][obj.s].k = "class" ->
                OfClass(nv[c][obj.s].cls)
          [] obj.t = "name" /\ obj.s \in RegNames /\ nv[c][obj.s].k = "inst" ->
                OfInstance(nv[c][obj.s].id)
          [] OTHER ->
                IF \A i \in 1..Len(vf[c]) : FactoryApply(vf[c][i], obj) = Nothing
                THEN "SchemaError"
                ELSE FirstFailure(h, nv, vf, c, obj.sub)

ParsedName(c, n) ==
    last'.op = "parse" /\ last'.ctx = c /\ last'.obj = SName(n)

\* C5: the first parse of a name registered to a validator class instantiates
\* the class and stores the instance under the name in place of the class;
\* every later parse of the name returns that same instance and creates
\* nothing; no parse adds or removes a registry key, and a parse of a name
\* changes no other name's entry.
C5_NameMemoization ==
    [][last'.op = "parse" =>
          \A c \in Contexts, n \in RegNames :
             LET before == named_validators[c][n]
                 after == named_validators'[c][n]
             IN  /\ (after.k = "absent") <=> (before.k = "absent")
                 /\ \/ after = before
                    \/ /\ before.k = "class"
                       /\ after.k = "inst"
                       /\ after.id \in (Len(heap) + 1)..Len(heap')
                       /\ heap'[after.id].cls = before.cls
                 /\ (ParsedName(c, n) /\ before.k = "class") =>
                       /\ last'.error = ""
                       /\ last'.id = Len(heap) + 1
                       /\ heap' = Append(heap, [Instantiate(before.cls)
                                                  EXCEPT !.val_context = c])
                       /\ named_validators' =
                             [named_validators EXCEPT ![c][n] = InstEntry(last'.id)]
                 /\ (ParsedName(c, n) /\ before.k = "inst"
                        /\ default_named_validators[n].k = "class") =>
                       /\ last'.error = ""
                       /\ last'.id = before.id
                       /\ heap' = heap
                       /\ named_validators' = named_validators]_vars

\* a name of the default registry was parsed and its entry is the instance
\* the parse returned
C5_NameHoldsInstance ==
    /\ last.op = "parse"
    /\ last.obj = SName("integer")
    /\ last.error = ""
    /\ default_named_validators["integer"] = ClassEntry("Integer")
    /\ named_validators[last.ctx]["integer"] = InstEntry(last.id)
    /\ heap[last.id].cls = "Integer"

\* C6: register(name, x) raises a type error and leaves the registry as it
\* was unless x is a Validator instance; for an instance it overwrites the
\* entry of name; a later parse(name) resolves to the instance registered
\* last: it returns that very instance, and raises only what parsing that
\* instance raises.
C6_Register ==
    [][/\ last'.op = "register" =>
             /\ heap' = heap
             /\ IF last'.obj.t = "inst"
                THEN /\ last'.error = ""
                     /\ named_validators' =
                           [named_validators EXCEPT ![last'.ctx][last'.name] =
                                                        InstEntry(last'.obj.id)]
                ELSE /\ last'.error = "TypeError"
                     /\ named_validators' = named_validators
       /\ last'.op = "parse" =>
             \A c \in Contexts, n \in RegNames :
                named_validators[c][n].k = "inst" =>
                   /\ named_validators'[c][n] = named_validators[c][n]
                   /\ ParsedName(c, n) =>
                         /\ last'.error = Outcome(heap, named_validators,
                                                  validators_factories, c,
                                                  SInst(named_validators[c][n].id))
                         /\ last'.id = IF last'.error = "" THEN named_validators[c][n].id
                                       ELSE 0]_vars

\* a register call was refused while the name holds an earlier instance
C6_RefusedKeepsEarlier ==
    /\ last.op = "register"
    /\ last.obj.t # "inst"
    /\ last.error = "TypeError"
    /\ named_validators[last.ctx][last.name].k = "inst"

\* the validator whose error a rejected validate(id) of the caller raises:
\* the AnyOf itself, or the AnyOf under a Nullable
Raiser(id) == IF heap[id].cls = "Nullable" THEN heap[id].validators[1] ELSE id

\* C7: the context a validator is bound to never changes once set; a parse of
\* a bound validator by any context does what a parse by its own context
\* does (nested schemas resolve through the registries of the context it is
\* bound to); the errors a validator raises carry its own context, whose
\* representation function and type names render them.
C7_FirstContextWins ==
    [][/\ \A i \in 1..Len(heap) :
             heap[i].val_context # NoContext =>
                heap'[i].val_context = heap[i].val_context
       /\ (last'.op = "parse" /\ last'.obj.t = "inst"
              /\ heap[last'.obj.id].val_context # NoContext) =>
             LET own == parse(State(heap, named_validators, validators_factories),
                              heap[last'.obj.id].val_context, last'.obj)
             IN  /\ heap' = own.st.heap
                 /\ named_validators' = own.st.named_validators
                 /\ last'.error = own.error
                 /\ last'.id = own.id
                 /\ heap[last'.obj.id].schemas = <<SName("x")>> =>
                       (last'.error = "SchemaError")
                          = (named_validators[heap[last'.obj.id].val_context]["x"].k
                                = "absent")
       /\ (last'.op = "validate" /\ ~last'.result.ok) =>
             LET ex == last'.result.error
                 own == heap[Raiser(last'.id)].val_context
             IN  /\ ex.val_context = own
                 /\ to_text(ex) = "Invalid value " \o Repr(own, ex.value) \o " ("
                                    \o get_type_name(own, ex.value.t) \o "): " \o ex.msg]_vars

\* a validator bound to context A was parsed by context B, which has the
\* name its schema needs, and failed because A has not
C7_ResolvedThroughFirstContext ==
    /\ last.op = "parse"
    /\ last.ctx = "B"
    /\ last.obj = SInst(3)
    /\ heap[3].val_context = "A"
    /\ heap[3].schemas = <<SName("x")>>
    /\ named_validators["B"]["x"].k = "inst"
    /\ named_validators["A"]["x"].k = "absent"
    /\ last.error = "SchemaError"

\* the text before the path: the message, after the value when there is one
Message(ex) ==
    IF ex.value = UNDEFINED THEN ex.msg
    ELSE "Invalid value " \o Repr(ex.val_context, ex.value) \o " ("
         \o get_type_name(ex.val_context, ex.value.t) \o "): " \o ex.msg

\* the items rendered as indexers, one after the other
RECURSIVE Indexers(_, _)
Indexers(c, items) ==
    IF items = <<>> THEN ""
    ELSE "[" \o Repr(c, Head(items)) \o "]" \o Indexers(c, Tail(items))

\* an item rendered as a plain name
PlainName(item) == IF item.t = "str" THEN item.s ELSE ToString(item.n)

\* the path items of the error the caller holds, outermost first
Outermost == Reverse(err.error_path_items)

\* C8 as stated: with n >= 1 path items the text ends with " (at P)", P being
\* the outermost item as a plain name followed by the other n-1 items as
\* indexers, whatever the type of the outermost item.
C8_OutermostIsPlainName ==
    last.op = "to_text" =>
        last.text = IF Outermost = <<>> THEN Message(err)
                    ELSE Message(err) \o " (at " \o PlainName(Head(Outermost))
                         \o Indexers(err.val_context, Tail(Outermost)) \o ")"

\* C8, amended: with n >= 1 path items the text ends with " (at P)"; when the
\* outermost item is a string, P is that string followed by the other n-1
\* items as indexers; when it is not (a sequence index), P is the word
\* "value" followed by all n items as indexers.  The text starts with
\* "Invalid value {repr} ({type name}): {message}" when a value is attached
\* and with the bare message when none is; without path items there is no
\* "(at ...)" suffix.
C8_PathRendering ==
    last.op = "to_text" =>
        last.text =
            IF Outermost = <<>> THEN Message(err)
            ELSE IF Head(Outermost).t = "str"
            THEN Message(err) \o " (at " \o Head(Outermost).s
                 \o Indexers(err.val_context, Tail(Outermost)) \o ")"
            ELSE Message(err) \o " (at value"
                 \o Indexers(err.val_context, Outermost) \o ")"

\* an error with a value and several path items, the outermost a sequence
\* index, was rendered
C8_IndexOutermostRendered ==
    /\ last.op = "to_text"
    /\ err.value # UNDEFINED
    /\ Len(Outermost) >= 2
    /\ Head(Outermost).t = "int"
    /\ Outermost[2].t = "str"
    /\ last.text # ""

\* the part of value that the path items lead to, outermost first; UNDEFINED
\* when an item names no position of the container it is applied to
RECURSIVE Navigate(_, _)
Navigate(value, items) ==
    IF items = <<>> THEN value
    ELSE LET item == Head(items) IN
         IF value.t = "list" /\ item.t = "int" /\ item.n + 1 \in 1..Len(value.e)
         THEN Navigate(value.e[item.n + 1], Tail(items))
         ELSE IF value.t = "dict" /\ item.t = "str" /\ item.s \in DictKeys(value)
         THEN Navigate(DictVal(value, item.s), Tail(items))
         ELSE UNDEFINED

\* the validator parsed from {"foo": "number", Optional("bar"): ["integer"]}
IsFooBar(id) ==
    /\ heap[id].cls = "Object"
    /\ heap[id].keys = FooBar.keys
    /\ heap[heap[id].validators[1]].cls = "Number"
    /\ heap[heap[id].validators[2]].cls = "HomogeneousSequence"
    /\ heap[heap[heap[id].validators[2]].validators[1]].cls = "Integer"

\* C9: every enclosing container appends one path item for the position it
\* was validating, so the items of a raised error are innermost first: read
\* last to first they lead from the validated value to the rejected part,
\* and the text shows them in that order; {"foo": 3, "bar": [1, "2", 3]}
\* against {"foo": number, Optional("bar"): [integer]} has the path bar[1].
C9_PathInnermostFirst ==
    (last.op = "validate" /\ ~last.result.ok) =>
        LET ex == last.result.error IN
        /\ ex.value # UNDEFINED
        /\ Navigate(last.value, Reverse(ex.error_path_items)) = ex.value
        /\ (IsFooBar(last.id)
              /\ last.value = VDict(<<Entry("foo", VInt(3)), Entry("bar", OneTwoThree)>>)) =>
                 /\ ex.error_path_items = <<VInt(1), VStr("bar")>>
                 /\ ex.value = VStr("2")
                 /\ to_text(ex) = Message(ex) \o " (at bar[1])"

\* the example: the second element of "bar" was rejected
C9_BarOneRejected ==
    /\ last.op = "validate"
    /\ IsFooBar(last.id)
    /\ last.value = VDict(<<Entry("foo", VInt(3)), Entry("bar", OneTwoThree)>>)
    /\ ~last.result.ok
    /\ Len(last.result.error.error_path_items) = 2

\* the declared keys of Object id that are not Optional and not in value
MissingRequired(id, value) ==
    {heap[id].keys[i].k : i \in {j \in 1..Len(heap[id].keys) : ~heap[id].keys[j].opt}}
        \ DictKeys(value)

\* C10: an Object given a mapping that lacks required keys raises one error
\* that lists all the missing required keys (never an Optional one), has the
\* whole input as its value and no path item, before any property value is
\* validated.
C10_MissingRequired ==
    (/\ last.op = "validate"
     /\ heap[last.id].cls = "Object"
     /\ last.value.t = "dict"
     /\ MissingRequired(last.id, last.value) # {}) =>
        /\ ~last.result.ok
        /\ last.result.error.msg = "missing required properties"
        /\ last.result.error.keys = MissingRequired(last.id, last.value)
        /\ last.result.error.value = last.value
        /\ last.result.error.error_path_items = <<>>
        /\ last.result.calls = <<last.id>>

\* two required keys are missing and a property with an invalid value is
\* present
C10_TwoMissingOneInvalid ==
    /\ last.op = "validate"
    /\ heap[last.id].cls = "Object"
    /\ last.value = VDict(<<Entry("bar", VStr("x"))>>)
    /\ Cardinality(MissingRequired(last.id, last.value)) = 2
    /\ ~last.result.ok
    /\ last.result.error.msg = "missing required properties"

\* an Object has validated a mapping that has all its required keys
ObjectCall ==
    /\ last.op = "validate"
    /\ heap[last.id].cls = "Object"
    /\ last.value.t = "dict"
    /\ MissingRequired(last.id, last.value) = {}

\* the declared name at position i, and what its validator makes of the
\* input's value for it
PropertyName(i) == heap[last.id].keys[i].k
PropertyOutcome(i) ==
    validate(heap, heap[last.id].validators[i], DictVal(last.value, PropertyName(i)))

\* the positions of the declared properties that are present and invalid, and
\* of those among them that are required or not to be ignored
Failing ==
    {i \in 1..Len(heap[last.id].keys) :
        /\ PropertyName(i) \in DictKeys(last.value)
        /\ PropertyOutcome(i).exception = "ValidationError"}
NotIgnored ==
    {i \in Failing : ~heap[last.id].keys[i].opt \/ ~heap[last.id].ignore_optional_errors}
FirstOf(positions) == CHOOSE i \in positions : \A j \in positions : i <= j

\* C11: with ignore_optional_errors=True a present, invalid Optional property
\* is absent from the adapted result and raises nothing, while an invalid
\* required property raises its validator's error with the property name
\* appended as path item; with ignore_optional_errors=False an invalid
\* optional property raises in the same way.  The error raised is that of the
\* first such property in declaration order.
C11_IgnoreOptionalErrors ==
    ObjectCall =>
        /\ NotIgnored # {} =>
              LET i == FirstOf(NotIgnored)
                  ex == PropertyOutcome(i).error
              IN  /\ ~last.result.ok
                  /\ last.result.exception = "ValidationError"
                  /\ last.result.error.msg = ex.msg
                  /\ last.result.error.value = ex.value
                  /\ last.result.error.error_path_items =
                        ex.error_path_items \o <<VStr(PropertyName(i))>>
        /\ \A i \in Failing \ NotIgnored :
              /\ heap[last.id].ignore_optional_errors
              /\ last.result.ok => PropertyName(i) \notin DictKeys(last.result.value)
              /\ ~last.result.ok =>
                    \A k \in 1..Len(last.result.error.error_path_items) :
                        last.result.error.error_path_items[k] # VStr(PropertyName(i))
        /\ (~heap[last.id].ignore_optional_errors /\ Failing # {}) => ~last.result.ok

\* ignore_optional_errors=True: {"foo": 1, "bar": "x"} is accepted without
\* its invalid optional "bar"
C11_InvalidOptionalDropped ==
    /\ ObjectCall
    /\ heap[last.id].ignore_optional_errors
    /\ heap[last.id].additional = "True"
    /\ last.value = VDict(<<Entry("foo", VInt(1)), Entry("bar", VStr("x"))>>)
    /\ Failing # {}
    /\ last.result.ok
    /\ last.result.value =
          VDict(<<Entry("foo", VInt(1)), Entry("baz", VInt(7)), Entry("qux", VInt(2))>>)

\* C12: in an adapted result, every declared Optional key absent from the
\* input maps to its default (to what the default returns when it is
\* callable) if it has one and is absent if it has none; a key present in the
\* input maps to its adapted value, or is absent when its invalid value was
\* dropped: it never gets the default.
C12_DefaultInjection ==
    (ObjectCall /\ last.result.ok) =>
        \A i \in 1..Len(heap[last.id].keys) :
            LET name == PropertyName(i)
                default == heap[last.id].keys[i].default
                result == last.result.value
            IN  heap[last.id].keys[i].opt =>
                  IF name \notin DictKeys(last.value)
                  THEN IF default = UNDEFINED THEN name \notin DictKeys(result)
                       ELSE /\ name \in DictKeys(result)
                            /\ DictVal(result, name) =
                                  IF default.t = "function" THEN VInt(default.n)
                                  ELSE default
                  ELSE IF i \in Failing THEN name \notin DictKeys(result)
                       ELSE /\ name \in DictKeys(result)
                            /\ DictVal(result, name) = PropertyOutcome(i).value

\* {"foo": 1, "baz": "x"} with ignore_optional_errors=True: the invalid "baz"
\* is dropped and does not get its default 7, the absent "qux" gets what its
\* callable default returns, the absent "bar" has no default
C12_DroppedGetsNoDefault ==
    /\ ObjectCall
    /\ last.value = VDict(<<Entry("foo", VInt(1)), Entry("baz", VStr("x"))>>)
    /\ Len(heap[last.id].keys) = 4
    /\ last.result.ok
    /\ DictKeys(last.result.value) = {"foo", "qux"}
    /\ DictVal(last.result.value, "qux") = VInt(2)

\* the declared keys of Object id, required and Optional
Declared(id) == {heap[id].keys[i].k : i \in 1..Len(heap[id].keys)}

\* a mapping without its entries for keys outside `names`
Restricted(value, names) == [value EXCEPT !.e = SelectSeq(@, LAMBDA en : en.k \in names)]

\* C13: an Object with additional=REMOVE adapts a mapping to a result with no
\* key outside its declared keys, in which every declared key that is present
\* (and not dropped as an ignored invalid optional) maps to its adapted value;
\* undeclared keys raise nothing: the outcome is that of the input without
\* them.  {foo: number} on {"foo": 1, "extra": true} returns exactly {"foo": 1}.
C13_RemoveAdditional ==
    (/\ last.op = "validate"
     /\ heap[last.id].cls = "Object"
     /\ heap[last.id].additional = "REMOVE"
     /\ last.value.t = "dict") =>
        LET declared == validate(heap, last.id, Restricted(last.value, Declared(last.id)))
        IN  /\ last.result.ok = declared.ok
            /\ last.result.ok =>
                  /\ last.result.value = declared.value
                  /\ DictKeys(last.result.value) \subseteq Declared(last.id)
                  /\ \A i \in 1..Len(heap[last.id].keys) :
                        (PropertyName(i) \in DictKeys(last.value) /\ i \notin Failing) =>
                            /\ PropertyName(i) \in DictKeys(last.result.value)
                            /\ DictVal(last.result.value, PropertyName(i)) =
                                  PropertyOutcome(i).value
            /\ ~last.result.ok =>
                  /\ last.result.error.msg = declared.error.msg
                  /\ last.result.error.keys = declared.error.keys
                  /\ last.result.error.error_path_items = declared.error.error_path_items
            /\ (/\ heap[last.id].keys = <<Key("foo")>>
                 /\ last.value = VDict(<<Entry("foo", VInt(1)), Entry("extra", VBool(TRUE))>>)) =>
                    /\ last.result.ok
                    /\ last.result.value = VDict(<<Entry("foo", VInt(1))>>)

\* the example: {foo: number} with additional=REMOVE has adapted
\* {"foo": 1, "extra": true}
C13_ExtraRemoved ==
    /\ last.op = "validate"
    /\ heap[last.id].cls = "Object"
    /\ heap[last.id].additional = "REMOVE"
    /\ heap[last.id].keys = <<Key("foo")>>
    /\ last.value = VDict(<<Entry("foo", VInt(1)), Entry("extra", VBool(TRUE))>>)
    /\ last.result.ok
    /\ "extra" \notin DictKeys(last.result.value)

\* the keys of the validated mapping that the Object does not declare,
\* neither as required nor through an Optional marker
Undeclared == DictKeys(last.value) \ Declared(last.id)

\* the last validate raised the error that lists unexpected keys
UnexpectedRaised ==
    /\ ~last.result.ok
    /\ last.result.exception = "ValidationError"
    /\ last.result.error.msg = "unexpected properties"

\* C14: an Object with additional=False whose required keys are all present
\* and whose declared properties raise nothing raises the error listing the
\* unexpected keys if and only if the input has a key it does not declare
\* (keys declared through Optional are declared); that error lists exactly
\* those keys, carries the input and has no path item, and is never raised
\* for an input without such a key.  With additional=True undeclared keys are
\* copied to the result unchanged and the outcome is that of the input
\* without them.
C14_AdditionalFalseTrue ==
    (/\ last.op = "validate"
     /\ heap[last.id].cls = "Object"
     /\ last.value.t = "dict") =>
        /\ heap[last.id].additional = "False" =>
              /\ UnexpectedRaised => Undeclared # {}
              /\ (MissingRequired(last.id, last.value) = {} /\ NotIgnored = {}) =>
                    /\ UnexpectedRaised <=> Undeclared # {}
                    /\ last.result.ok <=> Undeclared = {}
                    /\ Undeclared # {} =>
                          /\ last.result.error.keys = Undeclared
                          /\ last.result.error.value = last.value
                          /\ last.result.error.error_path_items = <<>>
        /\ heap[last.id].additional = "True" =>
              /\ ~UnexpectedRaised
              /\ last.result.ok =
                    validate(heap, last.id, Restricted(last.value, Declared(last.id))).ok
              /\ last.result.ok =>
                    \A k \in Undeclared :
                        /\ k \in DictKeys(last.result.value)
                        /\ DictVal(last.result.value, k) = DictVal(last.value, k)

\* additional=False: an input with two undeclared keys and an (ignored,
\* invalid) Optional one is rejected for the two undeclared keys only
C14_OptionalIsDeclared ==
    /\ last.op = "validate"
    /\ heap[last.id].cls = "Object"
    /\ heap[last.id].additional = "False"
    /\ last.value = VDict(<<Entry("extra", VInt(5)), Entry("foo", VInt(1)),
                            Entry("bar", VStr("x")), Entry("more", VStr("y"))>>)
    /\ "bar" \in Declared(last.id) \ heap[last.id].required
    /\ UnexpectedRaised
    /\ last.result.error.keys = {"extra", "more"}

\* a composite of class cls has validated a value
CompositeCall(cls) == last.op = "validate" /\ heap[last.id].cls = cls

\* what the composite's i-th child makes of value
Child(i) == heap[last.id].validators[i]
ChildOutcome(i, value) == validate(heap, Child(i), value)

\* the validate calls made by a composite whose children 1..k each got the
\* value values[i]: its own, then those of the children in order
RECURSIVE CallsOf(_, _)
CallsOf(k, values) ==
    IF k = 0 THEN <<last.id>>
    ELSE CallsOf(k - 1, values) \o ChildOutcome(k, values[k]).calls

\* the children of the AnyOf that do not reject the value: they accept it, or
\* raise something that is no ValidationError
Deciding ==
    {i \in 1..Len(heap[last.id].validators) :
        ChildOutcome(i, last.value).exception # "ValidationError"}

\* C15: AnyOf.validate tries its children in declaration order and returns
\* what the first accepting child returns; the children after it are not
\* called, so when several children accept the value the result is the
\* earliest one's.
C15_AnyOfFirstAccepting ==
    (CompositeCall("AnyOf") /\ Deciding # {}) =>
        LET first == FirstOf(Deciding)
            given == [i \in 1..first |-> last.value]
        IN  /\ last.result.ok = ChildOutcome(first, last.value).ok
            /\ last.result.value = ChildOutcome(first, last.value).value
            /\ last.result.exception = ChildOutcome(first, last.value).exception
            /\ last.result.calls = CallsOf(first, given)

\* both children of AnyOf(AdaptBy(utcfromtimestamp), "integer") accept
\* 1373475820, with different results; the AdaptBy's was returned
C15_EarliestOfTwo ==
    /\ CompositeCall("AnyOf")
    /\ last.value = VInt(1373475820)
    /\ Cardinality({i \in Deciding : ChildOutcome(i, last.value).ok}) = 2
    /\ ChildOutcome(1, last.value).value # ChildOutcome(2, last.value).value
    /\ last.result.ok
    /\ last.result.value = VDatetime(1373475820)
    /\ last.result.calls = <<last.id, Child(1)>>

\* C16: when every child rejects the value, AnyOf.validate raises one new
\* ValidationError: its message is the children's messages joined with
\* " or " in declaration order, its value the value given to the AnyOf, and
\* it has no path item, whatever path the children's errors had; an
\* enclosing Object then appends the property name.
C16_AnyOfTotalFailure ==
    /\ (CompositeCall("AnyOf") /\ Deciding = {}) =>
          LET n == Len(heap[last.id].validators) IN
          /\ ~last.result.ok
          /\ last.result.exception = "ValidationError"
          /\ last.result.error.msg =
                JoinWith(" or ", [i \in 1..n |-> ChildOutcome(i, last.value).error.msg])
          /\ last.result.error.value = last.value
          /\ last.result.error.error_path_items = <<>>
          /\ last.result.error.val_context = heap[last.id].val_context
          /\ last.result.calls = CallsOf(n, [i \in 1..n |-> last.value])
    /\ (/\ CompositeCall("Object")
         /\ last.value.t = "dict"
         /\ DictKeys(last.value) = {"baz"}
         /\ heap[Child(1)].cls = "AnyOf"
         /\ ~ChildOutcome(1, DictVal(last.value, "baz")).ok) =>
            LET ex == ChildOutcome(1, DictVal(last.value, "baz")).error IN
            /\ ~last.result.ok
            /\ last.result.error.msg = ex.msg
            /\ ex.error_path_items = <<>>
            /\ last.result.error.error_path_items = <<VStr("baz")>>

\* AnyOf("number", ["number"]) has rejected ["x"]: its second child's error
\* had the path item 0, the error raised has none
C16_ChildPathNotKept ==
    /\ CompositeCall("AnyOf")
    /\ last.value = VList(<<VStr("x")>>)
    /\ Deciding = {}
    /\ Len(heap[last.id].validators) = 2
    /\ ChildOutcome(2, last.value).error.error_path_items = <<VInt(0)>>
    /\ ~last.result.ok
    /\ last.result.error.msg = "must be number or must be number"

\* the outcome of a composite that stopped at its child `first`, which was
\* given values[first], or that ran all its n children
Stopped(first, values) ==
    [ChildOutcome(first, values[first]) EXCEPT !.calls = CallsOf(first, values)]

\* C17: AllOf.validate gives every child the original value, in declaration
\* order; the first child that rejects ends the validation with its own
\* error, the later children are not called; when all accept, the result is
\* what the last child returned.
C17_AllOf ==
    CompositeCall("AllOf") =>
        LET n == Len(heap[last.id].validators)
            original == [i \in 1..n |-> last.value]
            rejecting == {i \in 1..n : ~ChildOutcome(i, last.value).ok}
        IN  IF rejecting # {}
            THEN last.result = Stopped(FirstOf(rejecting), original)
            ELSE /\ last.result.ok
                 /\ last.result.value = ChildOutcome(n, last.value).value
                 /\ last.result.calls = CallsOf(n, original)

\* AllOf(AdaptTo(int), Condition(x > 0), AdaptBy(utcfromtimestamp)) has
\* rejected "1373475820": its Condition got the string, not the int the
\* AdaptTo returned
C17_SecondChildGetsOriginal ==
    /\ CompositeCall("AllOf")
    /\ last.value = VStr("1373475820")
    /\ heap[Child(1)].cls = "AdaptTo"
    /\ ChildOutcome(1, last.value).value = VInt(1373475820)
    /\ ~last.result.ok
    /\ last.result.error.msg = "must satisfy predicate <lambda>"
    /\ last.result.error.value = VStr("1373475820")
    /\ last.result.calls = <<last.id, Child(1), Child(2)>>

\* the values the children of a ChainOf get: the input, then what the child
\* before returned (UNDEFINED when it returned nothing)
RECURSIVE Piped(_)
Piped(i) ==
    IF i = 1 THEN <<last.value>>
    ELSE LET before == Piped(i - 1) IN
         Append(before, ChildOutcome(i - 1, before[i - 1]).value)

\* C18: ChainOf.validate gives its first child the input and every later
\* child what the child before it returned; the first child that rejects
\* ends the validation with its error, the later children are not called;
\* the result is what the last child returned.  ChainOf(AdaptTo(int),
\* Condition(x > 0), AdaptBy(utcfromtimestamp)) accepts "1373475820".
C18_ChainOf ==
    CompositeCall("ChainOf") =>
        LET n == Len(heap[last.id].validators)
            piped == Piped(n)
            rejecting == {i \in 1..n :
                            /\ \A j \in 1..(i - 1) : ChildOutcome(j, piped[j]).ok
                            /\ ~ChildOutcome(i, piped[i]).ok}
        IN  /\ IF rejecting # {}
               THEN last.result = Stopped(FirstOf(rejecting), piped)
               ELSE /\ last.result.ok
                    /\ last.result.value = ChildOutcome(n, piped[n]).value
                    /\ last.result.calls = CallsOf(n, piped)
            /\ (last.value = VStr("1373475820") /\ heap[Child(1)].cls = "AdaptTo") =>
                  /\ last.result.ok
                  /\ last.result.value = VDatetime(1373475820)

\* the example: the ChainOf has accepted "1373475820", its Condition got the
\* int
C18_StringAccepted ==
    /\ CompositeCall("ChainOf")
    /\ last.value = VStr("1373475820")
    /\ heap[Child(1)].cls = "AdaptTo"
    /\ Piped(3) = <<VStr("1373475820"), VInt(1373475820), VInt(1373475820)>>
    /\ last.result.ok
    /\ last.result.value = VDatetime(1373475820)

\* C20: is_valid(value) returns True exactly when validate(value) returns and
\* False exactly when validate(value) raises ValidationError; any other
\* exception validate raises leaves is_valid as it is.
C20_IsValid ==
    last.op = "is_valid" =>
        LET r == validate(heap, last.id, last.value) IN
        /\ r.ok <=> (last.result.ok /\ last.result.value = VBool(TRUE))
        /\ r.exception = "ValidationError" <=>
              (last.result.ok /\ last.result.value = VBool(FALSE))
        /\ r.exception \notin {"", "ValidationError"} <=> ~last.result.ok
        /\ ~last.result.ok =>
              /\ last.result.exception = r.exception
              /\ last.result.text = r.text

\* the TypeError of a predicate of a Condition without traps has left
\* is_valid of the AnyOf above it
C20_TypeErrorPropagates ==
    /\ last.op = "is_valid"
    /\ heap[last.id].cls = "AnyOf"
    /\ last.value = VStr("1373475820")
    /\ ~last.result.ok
    /\ last.result.exception = "TypeError"
    /\ last.result.text = "'>' not supported between instances of 'str' and 'int'"

\* the Nullables that the step parses
ParsedNow ==
    {i \in 1..Len(heap) :
        heap[i].cls = "Nullable" /\ heap[i].hasSchemas /\ ~heap'[i].hasSchemas}

\* the names of the validators ids, in the heap h
Names(h, ids) == [j \in 1..Len(ids) |-> humanized_name(h, ids[j])]

\* Nullable i, parsed by the step, has as its validator an AnyOf whose last
\* child is a new NoneValue with the Nullable's default; that AnyOf is the
\* one its schema resolved to, with its children as they were and the
\* NoneValue after them, or, for a schema resolving to another validator X, a
\* new AnyOf of X and the NoneValue; its name is the flat disjunction of the
\* children's names, the last being `null`
Flattened(i, null) ==
    LET schema == heap[i].schemas[1]
        any == heap'[i].validators[1]
        children == heap'[any].validators
        none == children[Len(children)]
        others == SubSeq(children, 1, Len(children) - 1)
    IN  /\ heap'[any].cls = "AnyOf"
        /\ ~heap'[any].hasSchemas
        /\ children # <<>>
        /\ none > Len(heap)
        /\ heap'[none].cls = "NoneValue"
        /\ heap'[none].default = heap[i].default
        /\ humanized_name(heap', i) = JoinWith(" or ", Append(Names(heap', others), null))
        /\ IF schema.t = "inst" /\ heap[schema.id].cls = "AnyOf"
           THEN /\ any = schema.id
                /\ IF heap[any].hasSchemas
                   THEN Len(others) = Len(heap[any].schemas)
                   ELSE others = heap[any].validators
           ELSE IF schema.t = "class" /\ schema.s = "AnyOf"
           THEN any > Len(heap) /\ others = <<>>
           ELSE /\ any > Len(heap)
                /\ Len(others) = 1
                /\ heap'[others[1]].cls # "AnyOf"
                /\ schema.t = "inst" => others[1] = schema.id
                /\ schema.t = "name" => heap'[others[1]].cls = "Integer"

\* C19: a Nullable whose schema resolves to an AnyOf with the children
\* [A, B] has that AnyOf, with exactly the children [A, B, null-acceptor], as
\* its validator, and the flat name "A or B or null"; one whose schema
\* resolves to another validator X has a new AnyOf with the children
\* [X, null-acceptor], and the name "X or null".  The null-acceptor's part of
\* the name is the name the Nullable's context gives to the class of None:
\* "null" with the JSON type names.
C19_NullableFlattening ==
    [][\A i \in ParsedNow :
          Flattened(i, get_type_name(heap'[i].val_context, "NoneType"))]_vars

\* Nullable(AnyOf("integer", "string")) was parsed in the context with the
\* JSON type names: the caller's AnyOf got a third child
C19_AnyOfGotThirdChild ==
    /\ last.op = "parse"
    /\ last.error = ""
    /\ last.ctx = "B"
    /\ heap[last.id].cls = "Nullable"
    /\ heap[last.id].validators = <<1>>
    /\ heap[1].cls = "AnyOf"
    /\ Len(heap[1].validators) = 3
    /\ heap[heap[1].validators[3]].cls = "NoneValue"
    /\ humanized_name(heap, last.id) = "integer or string or null"

\* C21: AdaptBy(adaptor, traps).validate(value) returns adaptor(value) when
\* the adaptor returns; when the adaptor raises an exception that belongs to
\* traps it raises a ValidationError with the exception's text as message and
\* the input as value; when the adaptor raises an exception outside traps, or
\* traps is empty, that exception leaves validate as it is.
C21_AdaptByTraps ==
    (last.op = "validate" /\ heap[last.id].cls = "AdaptBy") =>
        LET c == Call(heap[last.id].fn, last.value)
            traps == heap[last.id].traps
            belongs == traps # {} /\ (c.raised \in traps \/ "Exception" \in traps)
        IN  /\ c.raised = "" =>
                  /\ last.result.ok
                  /\ last.result.value = c.value
            /\ (c.raised # "" /\ belongs) =>
                  /\ ~last.result.ok
                  /\ last.result.exception = "ValidationError"
                  /\ last.result.error.msg = c.text
                  /\ last.result.error.value = last.value
                  /\ last.result.error.error_path_items = <<>>
            /\ (c.raised # "" /\ ~belongs) =>
                  /\ ~last.result.ok
                  /\ last.result.exception = c.raised
                  /\ last.result.text = c.text
                  /\ last.result.error = NoError

\* int(None) raised TypeError under traps=ValueError: the TypeError left
\* validate
C21_TypeErrorOutsideTraps ==
    /\ last.op = "validate"
    /\ heap[last.id].cls = "AdaptBy"
    /\ heap[last.id].traps = {"ValueError"}
    /\ heap[last.id].fn = "int"
    /\ last.value = VNone
    /\ last.result.exception = "TypeError"

\* what validator id makes of value in the tree as it was parsed: no thread
\* has called validate yet
Alone(id, value) == validate(heap, id, value)

SameRun ==
    /\ last.op = "presets"
    /\ last.runs["A"].obj # SNoSchema
    /\ last.runs["A"].obj = last.runs["B"].obj
    /\ last.runs["A"].value # UNDEFINED
    /\ last.runs["A"].value = last.runs["B"].value

\* C23: the default context and the JSON preset differ in their type names
\* and representation function only, and parsing the same schema and
\* validating the same value in both gives the same decision and the same
\* adapted value (and, when rejected, an error on the same value at the same
\* path); only names and rendered text differ.
C23_TypeNamesDoNotInterfere ==
    /\ (last.op = "presets" /\ last.runs["A"].obj = last.runs["B"].obj) =>
          last.runs["A"].error = last.runs["B"].error
    /\ SameRun =>
          LET a == last.runs["A"].result
              b == last.runs["B"].result
          IN  /\ a.ok = b.ok
              /\ a.value = b.value
              /\ a.exception = b.exception
              /\ a.error.value = b.error.value
              /\ a.error.error_path_items = b.error.error_path_items
              /\ a.error.keys = b.error.keys

\* both callers parsed {"foo": "number", Optional("bar"): ["integer"]}, each
\* got a validator of its own, both rejected {"foo": 3, "bar": [1, "2", 3]},
\* and the two errors read differently
C23_SameDecisionOtherText ==
    /\ SameRun
    /\ last.runs["A"].obj = FooBar
    /\ last.runs["A"].id # last.runs["B"].id
    /\ last.runs["A"].value = VDict(<<Entry("foo", VInt(3)), Entry("bar", OneTwoThree)>>)
    /\ ~last.runs["A"].result.ok
    /\ ~last.runs["B"].result.ok
    /\ to_text(last.runs["A"].result.error) # to_text(last.runs["B"].result.error)

\* the instance schema obj denotes for context c before resolution: the
\* instance itself, or the one registered under the name; 0 when there is none
Denotes(c, obj) ==
    CASE obj.t = "inst" -> obj.id
      [] obj.t = "name" /\ obj.s \in RegNames /\ named_validators[c][obj.s].k = "inst" ->
            named_validators[c][obj.s].id
      [] OTHER -> 0

InForce == validators_factories["A"][FactoryAt(validators_factories["A"], "Object")]

RECURSIVE Subtree(_, _)
\* the validators reachable from validator id through child lists
Subtree(h, id) ==
    {id} \cup UNION {Subtree(h, h[id].validators[i]) : i \in 1..Len(h[id].validators)}

\* the validators of Subtree that a factory made from a literal
Built_by_factory(h, id) ==
    {i \in Subtree(h, id) : h[i].cls \in {"Object", "HomogeneousSequence"}}

WithExtraNested ==
    VDict(<<Entry("p", VList(<<VDict(<<Entry("q", VInt(1)), Entry("extra", VInt(1))>>)>>))>>)
WithMore == VDict(<<Entry("p", VList(<<>>)), Entry("more", VInt(1))>>)
WithBadNested == VDict(<<Entry("p", VList(<<VDict(<<Entry("q", VStr("x"))>>)>>))>>)
WithBadOptional == VDict(<<Entry("p", VList(<<>>)), Entry("r", VStr("x"))>>)

\* what a validator of the literal Plain does under the options (ap, ig), at
\* the top level and one level down
Behaves(h, id, ap, ig) ==
    LET nested == validate(h, id, WithExtraNested)
        top == validate(h, id, WithMore)
        badq == validate(h, id, WithBadNested)
        badr == validate(h, id, WithBadOptional)
    IN  /\ CASE ap = "True" -> /\ nested.ok /\ nested.value = WithExtraNested
                               /\ top.ok /\ top.value = WithMore
              [] ap = "False" -> /\ ~nested.ok /\ nested.error.keys = {"extra"}
                                 /\ ~top.ok /\ top.error.keys = {"more"}
              [] OTHER ->
                    /\ nested.ok
                    /\ nested.value =
                          VDict(<<Entry("p", VList(<<VDict(<<Entry("q", VInt(1))>>)>>))>>)
                    /\ top.ok /\ top.value = VDict(<<Entry("p", VList(<<>>))>>)
        /\ IF ig
           THEN /\ badq.ok /\ badq.value = VDict(<<Entry("p", VList(<<VDict(<<>>)>>))>>)
                /\ badr.ok /\ badr.value = VDict(<<Entry("p", VList(<<>>))>>)
           ELSE /\ ~badq.ok /\ badq.error.value = VStr("x")
                /\ ~badr.ok /\ badr.error.value = VStr("x")

\* C25 (as the code has it): every parse of the plain literal returns a new
\* Object whose Objects and sequences, at every nesting level, are new and
\* carry the ObjectFactory options in force at that parse, and behave
\* accordingly; the leaves resolved through a name are the registry's one
\* instance of that name, shared by all the parses.  No parse and no change
\* of the options changes a validator made earlier or what it does.
C25_LiteralsNotMemoized ==
    [][/\ \A i \in 1..Len(heap) : heap'[i] = heap[i]
       /\ \A i \in 1..Len(heap), value \in LiteralValues :
             (heap[i].cls = "Object" /\ heap[i].keys = Plain.keys) =>
                validate(heap', i, value) = validate(heap, i, value)
       /\ (last'.op = "parse" /\ last'.obj = Plain) =>
             /\ last'.error = ""
             /\ last'.id > Len(heap)
             /\ \A i \in Built_by_factory(heap', last'.id) : i > Len(heap)
             /\ \A i \in Subtree(heap', last'.id) :
                   /\ heap'[i].cls = "Object" =>
                         /\ heap'[i].additional = InForce.additional_properties
                         /\ heap'[i].ignore_optional_errors =
                               InForce.ignore_optional_property_errors
                   /\ heap'[i].cls \notin {"Object", "HomogeneousSequence"} =>
                         named_validators'["A"]["integer"] = InstEntry(i)
             /\ Behaves(heap', last'.id, InForce.additional_properties,
                        InForce.ignore_optional_property_errors)]_vars

\* C25 as stated: every parse of the plain literal builds a validator subtree
\* all of whose validators are new.
C25_BrandNewSubtree ==
    [][(last'.op = "parse" /\ last'.obj = Plain /\ last'.error = "") =>
          \A i \in Subtree(heap', last'.id) : i > Len(heap)]_vars

\* two validators of the same literal, the first made under the defaults and
\* the second with additional properties forbidden and optional errors
\* ignored; after the second parse the first still accepts what the second
\* rejects
C25_EarlierKeepsItsOptions ==
    /\ last.op = "validate"
    /\ last.id = 1
    /\ last.value = WithExtraNested
    /\ last.result.ok
    /\ \E j \in 2..Len(heap) :
          /\ heap[j].cls = "Object" /\ heap[j].keys = Plain.keys
          /\ Behaves(heap, j, "False", TRUE)
          /\ ~validate(heap, j, WithExtraNested).ok
    /\ Behaves(heap, 1, "True", FALSE)

\* the validate call `last` records is one of a validator of class cls
SequenceCall(cls) == last.op = "validate" /\ heap[last.id].cls = cls

\* what validator `child` returns for element i of the input
ItemOutcome(child, i) == validate(heap, child, last.value.e[i])

\* the concatenated calls of the item validators for elements 1..n, element
\* i going to validator children[i]
RECURSIVE ItemCalls(_, _)
ItemCalls(children, n) ==
    IF n = 0 THEN <<>>
    ELSE ItemCalls(children, n - 1) \o ItemOutcome(children[n], n).calls

\* C26: HomogeneousSequence.validate rejects a non-sequence and a string;
\* then checks the length bounds, before any element is validated; with an
\* item schema it validates the elements in index order, stops at the first
\* rejected one, whose error gets its index as path item, and validates no
\* later element; on success the result has the class and length of the
\* input and element i is the item validator's adaptation of input element
\* i; with no item schema the input itself is returned.
C26_HomogeneousSequence ==
    SequenceCall("HomogeneousSequence") =>
       LET v == heap[last.id]
           value == last.value
           r == last.result
           n == Len(value.e)
           children == [i \in 1..n |-> v.validators[1]]
           bad == {i \in 1..n : ~ItemOutcome(v.validators[1], i).ok}
       IN  IF value.t \notin {"list", "tuple"}
           THEN /\ ~r.ok
                /\ r.error.msg = "must be " \o get_type_name(v.val_context, "Sequence")
                /\ r.error.value = value
                /\ r.calls = <<last.id>>
           ELSE IF v.min_length # NoLength /\ n < v.min_length
           THEN /\ ~r.ok
                /\ r.error.msg = "must contain at least " \o ToString(v.min_length)
                                     \o " elements"
                /\ r.error.value = value
                /\ r.error.error_path_items = <<>>
                /\ r.calls = <<last.id>>
           ELSE IF v.max_length # NoLength /\ n > v.max_length
           THEN /\ ~r.ok
                /\ r.error.msg = "must contain at most " \o ToString(v.max_length)
                                     \o " elements"
                /\ r.error.value = value
                /\ r.error.error_path_items = <<>>
                /\ r.calls = <<last.id>>
           ELSE IF v.validators = <<>>
           THEN r.ok /\ r.value = value /\ r.calls = <<last.id>>
           ELSE IF bad # {}
           THEN LET first == SetMin(bad) IN
                /\ ~r.ok
                /\ r.error = add_error_path_item(ItemOutcome(v.validators[1], first).error,
                                                 VInt(first - 1))
                /\ r.calls = <<last.id>> \o ItemCalls(children, first)
           ELSE /\ r.ok
                /\ r.value.t = value.t
                /\ Len(r.value.e) = n
                /\ \A i \in 1..n : r.value.e[i] = ItemOutcome(v.validators[1], i).value
                /\ r.calls = <<last.id>> \o ItemCalls(children, n)

\* the tuple ("0", "nan") went to HomogeneousSequence(adaptor, 1, 2): the
\* first element was adapted, the second rejected with index 1 as path
C26_SecondElementRejected ==
    /\ SequenceCall("HomogeneousSequence")
    /\ last.id = 2
    /\ last.value = VTuple(<<VStr("0"), VStr("nan")>>)
    /\ ~last.result.ok
    /\ last.result.error.value = VStr("nan")
    /\ last.result.error.error_path_items = <<VInt(1)>>
    /\ last.result.calls = <<2, 1, 1>>

\* C27: HeterogeneousSequence.validate of a sequence whose length M is not
\* the number N of item schemas raises "N items expected, M found" on the
\* whole value and validates no item; with equal lengths element i goes to
\* schema i only, the first failure gets index i as path item, and the
\* result has the class of the input.
C27_HeterogeneousSequence ==
    SequenceCall("HeterogeneousSequence") =>
       LET v == heap[last.id]
           value == last.value
           r == last.result
           n == Len(value.e)
           bad == {i \in 1..n : ~ItemOutcome(v.validators[i], i).ok}
       IN  IF value.t \notin {"list", "tuple"}
           THEN ~r.ok /\ r.error.value = value /\ r.calls = <<last.id>>
           ELSE IF n # Len(v.validators)
           THEN /\ ~r.ok
                /\ r.error.msg = ToString(Len(v.validators)) \o " items expected, "
                                     \o ToString(n) \o " found"
                /\ r.error.value = value
                /\ r.error.error_path_items = <<>>
                /\ r.calls = <<last.id>>
           ELSE IF bad # {}
           THEN LET first == SetMin(bad) IN
                /\ ~r.ok
                /\ r.error = add_error_path_item(ItemOutcome(v.validators[first], first).error,
                                                 VInt(first - 1))
                /\ r.calls = <<last.id>> \o ItemCalls(v.validators, first)
           ELSE /\ r.ok
                /\ r.value.t = value.t
                /\ Len(r.value.e) = n
                /\ \A i \in 1..n : r.value.e[i] = ItemOutcome(v.validators[i], i).value
                /\ r.calls = <<last.id>> \o ItemCalls(v.validators, n)

\* the list ["nan", "0", 1] went to HeterogeneousSequence(adaptor, "string"):
\* "2 items expected, 3 found", and the adaptor was not called on "nan"
C27_ThreeForTwo ==
    /\ SequenceCall("HeterogeneousSequence")
    /\ last.id = 4
    /\ last.value = VList(<<VStr("nan"), VStr("0"), VInt(1)>>)
    /\ ~last.result.ok
    /\ last.result.error.msg = "2 items expected, 3 found"
    /\ last.result.error.value = last.value
    /\ last.result.calls = <<4>>

\* what the Mapping of the recorded call gets for the value, resp. the key,
\* of entry i of the input; a missing schema leaves that half as it is
ValueOutcome(i) ==
    IF heap[last.id].validators[2] # 0
    THEN validate(heap, heap[last.id].validators[2], last.value.e[i].v)
    ELSE Accept(last.value.e[i].v, <<>>)
KeyOutcome(i) ==
    IF heap[last.id].validators[1] # 0
    THEN validate(heap, heap[last.id].validators[1], VStr(last.value.e[i].k))
    ELSE Accept(VStr(last.value.e[i].k), <<>>)

\* the calls made for entries 1..n, each entry's value before its key
RECURSIVE EntryCalls(_)
EntryCalls(n) ==
    IF n = 0 THEN <<>> ELSE EntryCalls(n - 1) \o ValueOutcome(n).calls \o KeyOutcome(n).calls

C29_InputNotMutated ==
    (last.op = "validate" /\ "input" \in DOMAIN last) => last.input = last.value

\* the outer Object returned a result with "foo" coerced, the default of
\* "bar" injected, "extra" removed and the nested object adapted, and the
\* input still has its three entries as they were
C29_AdaptedResultSameInput ==
    /\ last.op = "validate"
    /\ "input" \in DOMAIN last
    /\ last.id = 3
    /\ last.value = VDict(<<Entry("foo", VStr("0")), Entry("extra", VInt(1)),
                            Entry("in", VDict(<<Entry("q", VStr("0")),
                                                Entry("extra", VInt(1))>>))>>)
    /\ last.result.ok
    /\ last.result.value = VDict(<<Entry("foo", VInt(0)),
                                   Entry("in", VDict(<<Entry("q", VInt(0))>>)),
                                   Entry("bar", VInt(2))>>)
    /\ last.input = last.value

\* the undeclared keys of the input, in input order, and the positions among
\* them whose value the additional schema rejects
UndeclaredInOrder == AdditionalProperties(heap[last.id], last.value)
AdditionalOutcome(i) ==
    validate(heap, heap[last.id].additional_validator,
             DictVal(last.value, UndeclaredInOrder[i]))
RejectedAdditional ==
    IF heap[last.id].additional # "schema" THEN {}
    ELSE {i \in 1..Len(UndeclaredInOrder) : ~AdditionalOutcome(i).ok}

\* C30: Object.validate reports, in this order, (a) an input that is no
\* mapping, (b) missing required keys, (c) the first declared property, in
\* declaration order, whose present value is rejected and not ignorable, (d)
\* undeclared keys under additional=False, or the first undeclared value the
\* additional schema rejects; an input with none of these is accepted.  So
\* the missing-required error wins over an invalid or undeclared property,
\* and a property error over the unexpected-properties error.
C30_ErrorPrecedence ==
    (last.op = "validate" /\ heap[last.id].cls = "Object") =>
       LET v == heap[last.id]
           value == last.value
           r == last.result
       IN  IF value.t \notin {"dict", "OrderedDict"}
           THEN /\ ~r.ok
                /\ r.error.msg = "must be " \o get_type_name(v.val_context, "Mapping")
                /\ r.error.value = value
                /\ r.error.error_path_items = <<>>
           ELSE IF MissingRequired(last.id, value) # {}
           THEN /\ ~r.ok
                /\ r.error.msg = "missing required properties"
                /\ r.error.keys = MissingRequired(last.id, value)
                /\ r.error.value = value
                /\ r.error.error_path_items = <<>>
           ELSE IF NotIgnored # {}
           THEN /\ ~r.ok
                /\ r.error = add_error_path_item(PropertyOutcome(FirstOf(NotIgnored)).error,
                                                 VStr(PropertyName(FirstOf(NotIgnored))))
                /\ r.error.msg # "unexpected properties"
           ELSE IF v.additional = "False" /\ Undeclared # {}
           THEN /\ UnexpectedRaised
                /\ r.error.keys = Undeclared
                /\ r.error.value = value
                /\ r.error.error_path_items = <<>>
           ELSE IF RejectedAdditional # {}
           THEN /\ ~r.ok
                /\ r.error = add_error_path_item(
                                 AdditionalOutcome(FirstOf(RejectedAdditional)).error,
                                 VStr(UndeclaredInOrder[FirstOf(RejectedAdditional)]))
           ELSE r.ok

\* an Object with additional=False that does not ignore optional errors got
\* {"extra": 5, "foo": 1, "bar": "x", "more": "y"}: an invalid declared
\* property and two undeclared keys, and the error is that of "bar"
C30_PropertyBeforeUnexpected ==
    /\ last.op = "validate"
    /\ heap[last.id].cls = "Object"
    /\ heap[last.id].additional = "False"
    /\ ~heap[last.id].ignore_optional_errors
    /\ last.value = VDict(<<Entry("extra", VInt(5)), Entry("foo", VInt(1)),
                            Entry("bar", VStr("x")), Entry("more", VStr("y"))>>)
    /\ Undeclared = {"extra", "more"}
    /\ ~last.result.ok
    /\ last.result.error.value = VStr("x")
    /\ last.result.error.error_path_items = <<VStr("bar")>>
    /\ last.result.error.msg # "unexpected properties"
====
